---- MODULE Spec2Model ----
(***************************************************************************)
(* A model of the stellarr media-request broker: the request store, the    *)
(* Plex webhook reconciliation pipeline, the bulk library sync, the        *)
(* Sonarr/Radarr list endpoints and the challenge-response login with its  *)
(* per-IP rate limiter.                                                    *)
(*                                                                         *)
(* Every handler is a process that performs one storage operation (or one  *)
(* outbound call) per step, so that concurrent requests interleave exactly *)
(* where the server can interleave them.                                   *)
(***************************************************************************)
EXTENDS Integers, Sequences, FiniteSets, TLC

\* ------------------------------------------------------------------ bounds

\* tmdb ids of the catalogue: 1..MaxTmdb
MaxTmdb == 2
\* number of handler processes that run concurrently
NProcs == 2
\* longest JSON array posted to /sync/library
MaxItems == 2
\* number of fulfilment timestamps the clock can hand out
MaxStamp == 2
\* number of webhook / sync / request-API calls in one run
MaxCalls == 2

\* ------------------------------------------------------- values and domains

\* Python's None (and the other falsy values 0 and "") of an id, a time, a string
NoId == 0
NoTime == 0
NoStr == ""

MediaTypes == {"movie", "tv"}
TmdbIds == 1..MaxTmdb
Keys == MediaTypes \X TmdbIds
Procs == 1..NProcs
Stamps == 1..MaxStamp
Users == {"alice"}

\* show-level tvdb ids; TMDB's external_ids gives tv show i the tvdb id 10 + i
TvdbIds == {10 + i : i \in TmdbIds}
ShowTvdb(i) == 10 + i

\* TheTVDB's episode -> series relation.  Episode ids and series ids share one
\* number space; episode e belongs to the series with the next id (cyclically),
\* so that an episode id read as a show id names the wrong show.
SeriesOfEpisode(e) == 10 + ((e - 10) % MaxTmdb) + 1

PlexGuids == {"plex://show/abc"}
\* every guid a payload can carry (the item's own guid included)
AllGuids == PlexGuids \cup {"plex://item/1"}

\* Titles are sequences of characters.  TMDB names every catalogue entry "Foo";
\* Plex may spell it differently, or name something else.
CatalogTitle == <<"F", "o", "o">>
PlexTitles == {<<"f", "o", "o", "!">>, <<"B", "a", "r">>}
NoTitle == <<>>

\* ------------------------------------------------------------------- state

VARIABLES
    requests,        \* Request table: (media_type, tmdb_id) -> item
    library,         \* LibraryMember table: (media_type, tmdb_id) -> row
    guid_cache,      \* plex_guid_cache table: plex_guid -> entry
    push_subs,       \* PushSubscription table: user name -> stored?
    clock,           \* the next fulfilment timestamp
    pc,              \* per process: position in its handler
    loc,             \* per process: the handler's local variables
    resp,            \* per process: the response of the finished handler
    notifier_calls,  \* history: calls of send_fulfillment_notification per (key, added_at)
    push_sent,       \* history: web pushes delivered per (key, added_at)
    marks,           \* history: successful mark_as_added calls per key since the item was created
    calls,           \* number of handler invocations so far
    feed,            \* the body of the last list response
    replay,          \* the webhook Plex delivers repeatedly, and what each delivery gave
    bucket,          \* the RATELIMIT#<ip> item of the client
    wall_clock,      \* the wall clock, in seconds
    aloc,            \* per process: the locals of verify_auth
    rate_limit_enabled,  \* RATE_LIMIT_ENABLED of the deployment
    win,             \* history: the failures recorded in the current window
    session,         \* a client's session token, and what the server made of it
    wire,            \* an item put into DynamoDB: as given, as marshalled, as read back
    tvdb_client,     \* the TVDB client: API key, cached token and expiry, the last lookup
    plex_webhook_token   \* PLEX_WEBHOOK_TOKEN of the deployment (settings.plex_webhook_token)

authvars == <<bucket, wall_clock, aloc, rate_limit_enabled, win, session, wire, tvdb_client, plex_webhook_token>>

vars == <<requests, library, guid_cache, push_subs, clock, pc, loc, resp,
          notifier_calls, push_sent, marks, calls, feed, replay, authvars>>

\* ------------------------------------------------------------- Request table

NoItem == [exists |-> FALSE, title |-> NoTitle, tvdb_id |-> NoId,
           requested_by |-> NoStr, added_at |-> NoTime, plex_guid |-> NoStr]

\* add_request's conditional put: attribute_not_exists(media_type) AND
\* attribute_not_exists(tmdb_id); INSERT OR IGNORE in the SQLite backend
add_request_condition(item) == ~item.exists

\* the item add_request writes
add_request_item(title, tvdb_id, requested_by) ==
    [exists |-> TRUE, title |-> title, tvdb_id |-> tvdb_id,
     requested_by |-> requested_by, added_at |-> NoTime, plex_guid |-> NoStr]

\* a mark_as_added that only requires the item to exist
mark_as_added_no_pending_check(item) == item.exists

\* mark_as_added's condition: attribute_exists(media_type) AND
\* attribute_not_exists(added_at); WHERE ... AND added_at IS NULL in SQLite
mark_as_added_condition(item) == item.exists /\ item.added_at = NoTime

\* mark_as_added: the table after the call
mark_as_added(tbl, key, now) ==
    IF key \in DOMAIN tbl /\ mark_as_added_condition(tbl[key])
    THEN [tbl EXCEPT ![key].added_at = now]
    ELSE tbl

\* a mark_as_added that reads the request back instead of reporting whether its
\* conditional write took place
mark_as_added_reads_back(tbl, key, now) ==
    IF key \in DOMAIN tbl /\ tbl[key].exists
    THEN [key |-> key,
          item |-> [tbl[key] EXCEPT !.added_at = IF @ = NoTime THEN now ELSE @]]
    ELSE [key |-> <<"none", NoId>>, item |-> NoItem]

\* mark_as_added: what the call returns (the updated request, or None)
mark_as_added_result(tbl, key, now) ==
    IF key \in DOMAIN tbl /\ mark_as_added_condition(tbl[key])
    THEN [key |-> key, item |-> [tbl[key] EXCEPT !.added_at = now]]
    ELSE [key |-> <<"none", NoId>>, item |-> NoItem]

\* update_plex_guid on DynamoDB: an UpdateItem with no condition, which creates
\* the item (key and plex_guid only) when the key is absent
update_plex_guid(tbl, key, plex_guid) ==
    IF tbl[key].exists
    THEN [tbl EXCEPT ![key].plex_guid = plex_guid]
    ELSE [tbl EXCEPT ![key] = [NoItem EXCEPT !.exists = TRUE, !.plex_guid = plex_guid]]

\* remove_request
remove_request(tbl, key) == [tbl EXCEPT ![key] = NoItem]

\* find_by_tvdb_id on SQLite: the rows of SELECT * FROM requests WHERE
\* tvdb_id = ? AND media_type = ? (the caller takes the first row returned)
find_by_tvdb_id_sqlite(tbl, tvdb_id, media_type) ==
    {k \in Keys : k[1] = media_type /\ tbl[k].exists /\ tbl[k].tvdb_id = tvdb_id}

\* a DynamoDBClient.query that also takes a filter expression
query_accepts_filter(keyword) ==
    keyword \in {"key_condition_expression", "expression_attribute_values",
                 "expression_attribute_names", "filter_expression"}

\* the keyword arguments DynamoDBClient.query takes; any other raises TypeError
query_accepts(keyword) ==
    keyword \in {"key_condition_expression", "expression_attribute_values",
                 "expression_attribute_names"}

\* find_by_tvdb_id on DynamoDB: client.query(key_condition_expression=...,
\* filter_expression='tvdb_id = :tvdb', expression_attribute_values=...) inside
\* try / except Exception, which answers None when the call raises
find_by_tvdb_id(tbl, tvdb_id, media_type) ==
    IF query_accepts("filter_expression")
    THEN {k \in Keys : k[1] = media_type /\ tbl[k].exists /\ tbl[k].tvdb_id = tvdb_id}
    ELSE {}

\* find_by_plex_guid: the requests whose plex_guid is the argument
find_by_plex_guid(tbl, plex_guid) ==
    {k \in Keys : tbl[k].exists /\ tbl[k].plex_guid = plex_guid}

\* get_all_requests(media_type)
get_all_requests(tbl, media_type) ==
    {k \in Keys : k[1] = media_type /\ tbl[k].exists}

\* ------------------------------------------------------ LibraryMember table

NoRow == [present |-> FALSE, tvdb_id |-> NoId, title |-> NoTitle]

\* DELETE FROM library, of every media type
clear_library_all(lib, media_type) == [k \in Keys |-> NoRow]

\* DELETE FROM library WHERE media_type = ?
clear_library(lib, media_type) ==
    [k \in Keys |-> IF k[1] = media_type THEN NoRow ELSE lib[k]]

\* INSERT OR REPLACE INTO library, item by item
RECURSIVE upsert_library(_, _, _)
upsert_library(lib, items, media_type) ==
    IF items = <<>> THEN lib
    ELSE LET it == Head(items)
             row == [present |-> TRUE, tvdb_id |-> it.tvdb_id, title |-> it.title]
         IN upsert_library([lib EXCEPT ![<<media_type, it.tmdb_id>>] = row],
                           Tail(items), media_type)

\* item['tmdb_id'] raises KeyError for an item without the key; the except
\* branch returns 0 and the connection closes without a commit
sync_library_fails(items) == \E i \in 1..Len(items) : items[i].tmdb_id = NoId

\* sync_library: the table after the call
sync_library(lib, items, media_type, clear_first) ==
    IF sync_library_fails(items) THEN lib
    ELSE upsert_library(IF clear_first THEN clear_library(lib, media_type) ELSE lib,
                        items, media_type)

\* sync_library: the count it returns
sync_library_count(items) == IF sync_library_fails(items) THEN 0 ELSE Len(items)

\* -------------------------------------------------------- plex_guid_cache

NoEntry == [cached |-> FALSE, tmdb_id |-> NoId, tvdb_id |-> NoId]

\* get_plex_guid_cache: the cached pair, or None
get_plex_guid_cache(cache, plex_guid) == cache[plex_guid]

\* set_plex_guid_cache: INSERT OR REPLACE
set_plex_guid_cache(cache, plex_guid, tmdb_id, tvdb_id) ==
    [cache EXCEPT ![plex_guid] = [cached |-> TRUE, tmdb_id |-> tmdb_id, tvdb_id |-> tvdb_id]]

\* ----------------------------------------------------- Plex payload parsing

\* a Guid entry whose value is not a number ("tmdb://abc")
BadNum == -1

\* parse_guid_list: the last tmdb:// and tvdb:// entries with a numeric value win;
\* int() raising ValueError leaves the earlier value
RECURSIVE parse_guid_list(_, _)
parse_guid_list(guids, acc) ==
    IF guids = <<>> THEN acc
    ELSE LET g == Head(guids)
             nxt == IF g.id = BadNum THEN acc
                    ELSE IF g.scheme = "tmdb" THEN [acc EXCEPT !.tmdb_id = g.id]
                    ELSE IF g.scheme = "tvdb" THEN [acc EXCEPT !.tvdb_id = g.id]
                    ELSE acc
         IN parse_guid_list(Tail(guids), nxt)

\* metadata.get('year') of a payload without the key
NoYear == 0

NoMedia == [media_type |-> "none", plex_type |-> "none", title |-> NoTitle, year |-> NoYear,
            tmdb_id |-> NoId, tvdb_id |-> NoId, plex_guid |-> NoStr,
            episode_tvdb_id |-> NoId]

\* the default of metadata.get(<title key>, 'Unknown')
Unknown == <<"U", "n", "k", "n", "o", "w", "n">>
TitleOr(title) == IF title = NoTitle THEN Unknown ELSE title

\* a parse_plex_payload that reads the item's own title, year and guid for
\* every type
parse_plex_payload_own_fields(md) ==
    IF md.type \in {"movie", "show", "season", "episode"}
    THEN [media_type |-> IF md.type = "movie" THEN "movie" ELSE "tv",
          plex_type |-> md.type, title |-> TitleOr(md.title), year |-> md.year,
          tmdb_id |-> NoId, tvdb_id |-> NoId, plex_guid |-> md.guid,
          episode_tvdb_id |-> NoId]
    ELSE NoMedia

\* parse_plex_payload: Metadata -> PlexMedia, or None for an unsupported type
parse_plex_payload(md) ==
    LET ids == parse_guid_list(md.Guid, [tmdb_id |-> NoId, tvdb_id |-> NoId])
        episode_tvdb_id == IF md.type = "episode" /\ ids.tvdb_id # NoId
                           THEN ids.tvdb_id ELSE NoId
        tvdb_id == IF md.type = "episode" /\ ids.tvdb_id # NoId THEN NoId
                   ELSE IF md.type = "season" THEN NoId
                   ELSE ids.tvdb_id
        tmdb_id == IF md.type = "season" THEN NoId ELSE ids.tmdb_id
    IN  IF md.type = "movie" THEN
            [media_type |-> "movie", plex_type |-> md.type, title |-> TitleOr(md.title),
             year |-> md.year,
             tmdb_id |-> tmdb_id, tvdb_id |-> tvdb_id, plex_guid |-> md.guid,
             episode_tvdb_id |-> episode_tvdb_id]
        ELSE IF md.type = "show" THEN
            [media_type |-> "tv", plex_type |-> md.type, title |-> TitleOr(md.title),
             year |-> md.year,
             tmdb_id |-> tmdb_id, tvdb_id |-> tvdb_id, plex_guid |-> md.guid,
             episode_tvdb_id |-> episode_tvdb_id]
        ELSE IF md.type = "season" THEN
            [media_type |-> "tv", plex_type |-> md.type, title |-> TitleOr(md.parentTitle),
             year |-> md.parentYear,
             tmdb_id |-> tmdb_id, tvdb_id |-> tvdb_id, plex_guid |-> md.parentGuid,
             episode_tvdb_id |-> episode_tvdb_id]
        ELSE IF md.type = "episode" THEN
            [media_type |-> "tv", plex_type |-> md.type,
             title |-> TitleOr(md.grandparentTitle), year |-> md.grandparentYear,
             tmdb_id |-> tmdb_id, tvdb_id |-> tvdb_id, plex_guid |-> md.grandparentGuid,
             episode_tvdb_id |-> episode_tvdb_id]
        ELSE NoMedia

\* The Guid array Plex sends for an item with these external ids
GuidArray(tmdb, tvdb) ==
    (IF tmdb = NoId THEN <<>> ELSE <<[scheme |-> "tmdb", id |-> tmdb]>>) \o
    (IF tvdb = NoId THEN <<>> ELSE <<[scheme |-> "tvdb", id |-> tvdb]>>)

\* The item's own title and guid, which are not the show's for a season or an episode
OwnTitle == <<"E", "1">>
OwnGuid == "plex://item/1"

\* A webhook payload for an item of Plex type `type` whose show has the given
\* title and Plex guid, and whose Guid array holds the given ids.  The show (or
\* the movie) is of 2001, a season of 2002, an episode of 2003.
Payload(event, server, type, title, guid, tmdb, tvdb) ==
    [event |-> event,
     Server |-> server,
     Metadata |->
       [type |-> type,
        title |-> IF type \in {"season", "episode"} THEN OwnTitle ELSE title,
        parentTitle |-> IF type = "season" THEN title
                        ELSE IF type = "episode" THEN OwnTitle ELSE NoTitle,
        grandparentTitle |-> IF type = "episode" THEN title ELSE NoTitle,
        year |-> IF type = "season" THEN 2002 ELSE IF type = "episode" THEN 2003 ELSE 2001,
        parentYear |-> IF type = "season" THEN 2001
                       ELSE IF type = "episode" THEN 2002 ELSE NoYear,
        grandparentYear |-> IF type = "episode" THEN 2001 ELSE NoYear,
        guid |-> IF type \in {"season", "episode"} THEN OwnGuid ELSE guid,
        parentGuid |-> IF type = "season" THEN guid
                       ELSE IF type = "episode" THEN OwnGuid ELSE NoStr,
        grandparentGuid |-> IF type = "episode" THEN guid ELSE NoStr,
        Guid |-> GuidArray(tmdb, tvdb)]]

\* -------------------------------------------------------------- title match

Lower(c) == CASE c = "F" -> "f" [] c = "B" -> "b" [] c = "E" -> "e" [] c = "U" -> "u"
              [] OTHER -> c
IsPunct(c) == c \in {"!", "."}

\* lowercase, strip punctuation, collapse runs of blanks, trim
RECURSIVE normalize_chars(_, _)
normalize_chars(t, out) ==
    IF t = <<>> THEN out
    ELSE LET c == Head(t)
         IN IF IsPunct(c) THEN normalize_chars(Tail(t), out)
            ELSE IF c = " " THEN
                 normalize_chars(Tail(t),
                     IF out = <<>> \/ out[Len(out)] = " " THEN out ELSE Append(out, " "))
            ELSE normalize_chars(Tail(t), Append(out, Lower(c)))

normalize_title(t) ==
    LET n == normalize_chars(t, <<>>)
    IN IF n # <<>> /\ n[Len(n)] = " " THEN SubSeq(n, 1, Len(n) - 1) ELSE n

\* find_by_title: the pending requests of the media type whose normalized title
\* is the normalized argument; the function returns one only when it is unique
title_matches(tbl, title, media_type) ==
    {k \in Keys : /\ k[1] = media_type
                  /\ tbl[k].exists
                  /\ tbl[k].added_at = NoTime
                  /\ normalize_title(tbl[k].title) = normalize_title(title)}

find_by_title(tbl, title, media_type) ==
    IF Cardinality(title_matches(tbl, title, media_type)) = 1
    THEN title_matches(tbl, title, media_type) ELSE {}

\* ------------------------------------------------------------ configuration

\* settings.plex_server_name
PlexServerName == "home"
\* settings.vapid_private_key is configured
VapidConfigured == TRUE

\* --------------------------------------------------------- handler locals

NoKey == <<"none", NoId>>
NoFound == [key |-> NoKey, tvdb_id |-> NoId]
NoMatch == [key |-> NoKey, item |-> NoItem]

InitLoc == [media |-> NoMedia, show_tmdb_id |-> NoId, show_tvdb_id |-> NoId,
            resolved_from_cache |-> FALSE, added_to_library |-> FALSE,
            matched_request |-> NoMatch, found_request |-> NoFound,
            show_tvdb_id_resolved |-> NoId, notification_sent |-> FALSE,
            items |-> <<>>, media_type |-> NoStr, clear |-> FALSE, i |-> 0, count |-> 0,
            marked |-> 0, newly |-> {}, push_answer |-> NoStr, sub_deleted |-> FALSE,
            tvdb_answer |-> NoStr, token |-> NoStr]

\* the hash a client derives from a password, the origin and a timestamp
\* (PBKDF2, then SHA-256 of "<key>:<timestamp>"): a value that depends on all three
challenge_hash(password, origin, timestamp) ==
    [password |-> password, origin |-> origin, timestamp |-> timestamp]

\* the body of POST /api/auth/verify (AuthChallenge)
AuthChallenge(origin, timestamp, hash, name) ==
    [origin |-> origin, timestamp |-> timestamp, hash |-> hash, name |-> name]

NoChallenge == AuthChallenge(NoStr, 0, challenge_hash(NoStr, NoStr, 0), <<>>)

\* the locals of verify_auth (trace, writes, hist_full and hist_cleared, the
\* failure count the call's clear_rate_limit removed, are history)
InitALoc == [trace |-> <<>>, checked |-> FALSE, allowed |-> TRUE, hist_full |-> FALSE,
             current_time |-> 0, writes |-> 0, hist_cleared |-> 0,
             data |-> NoChallenge, auth_time |-> 0]

NoResp == [kind |-> "none"]

\* `if matched_request:`
Matched(l) == l.matched_request.item.exists

\* the first row of a query result, or None
FirstOf(tbl, ks) ==
    IF ks = {} THEN {NoFound} ELSE {[key |-> k, tvdb_id |-> tbl[k].tvdb_id] : k \in ks}

\* what db.find_by_tvdb_id gives the handler: the first row of the DynamoDB
\* backend's result, or of the SQLite backend's
found_by_tvdb_id(tbl, tvdb_id, media_type) ==
    FirstOf(tbl, find_by_tvdb_id(tbl, tvdb_id, media_type)) \cup
    FirstOf(tbl, find_by_tvdb_id_sqlite(tbl, tvdb_id, media_type))

\* ------------------------------------------------------- webhook pipeline

NKeys == Keys \X Stamps

\* a result whose tmdb_id is the matched request's id when there is one
webhook_result_with_matched_id(l) ==
    [kind |-> "webhook", code |-> 200, status |-> "success",
     title |-> l.media.title, media_type |-> l.media.media_type,
     plex_type |-> l.media.plex_type,
     tmdb_id |-> IF Matched(l) THEN l.matched_request.key[2]
                 ELSE IF l.show_tmdb_id # NoId THEN l.show_tmdb_id ELSE l.media.tmdb_id,
     added_to_library |-> l.added_to_library,
     matched_request |-> Matched(l),
     notification_sent |-> l.notification_sent,
     hist_matched |-> l.matched_request, hist_media |-> l.media,
     hist_push |-> l.push_answer, hist_deleted |-> l.sub_deleted]

\* the result dict plex_webhook returns (hist_matched, hist_media, hist_push and
\* hist_deleted are history: the request the call fulfilled, the identity it
\* parsed, what the push endpoint answered and whether the call deleted the
\* requester's subscription)
webhook_result(l) ==
    [kind |-> "webhook", code |-> 200, status |-> "success",
     title |-> l.media.title, media_type |-> l.media.media_type,
     plex_type |-> l.media.plex_type,
     tmdb_id |-> IF l.show_tmdb_id # NoId THEN l.show_tmdb_id ELSE l.media.tmdb_id,
     added_to_library |-> l.added_to_library,
     matched_request |-> Matched(l),
     notification_sent |-> l.notification_sent,
     hist_matched |-> l.matched_request, hist_media |-> l.media,
     hist_push |-> l.push_answer, hist_deleted |-> l.sub_deleted]

\* the 500 response of a handler that raised
failed_result == [kind |-> "webhook", code |-> 500, status |-> "error"]

ignored_result(reason) ==
    [kind |-> "webhook", code |-> 200, status |-> "ignored", reason |-> reason]

\* `if matched_request: notification_sent = send_fulfillment_notification(...)`;
\* the notifier reads storage only when VAPID is configured and the request
\* names its requester
NotifyEntry(l) ==
    IF Matched(l) /\ VapidConfigured /\ l.matched_request.item.requested_by # NoStr
    THEN "n_get" ELSE "w_done"

\* a title match that runs whenever no request was matched, ids or not
S5Entry_any_ids(l) ==
    IF ~Matched(l)
    THEN "s5_find" ELSE NotifyEntry(l)

\* `if not matched_request and not show_tmdb_id and not show_tvdb_id`
S5Entry(l) ==
    IF ~Matched(l) /\ l.show_tmdb_id = NoId /\ l.show_tvdb_id = NoId
    THEN "s5_find" ELSE NotifyEntry(l)

\* a trailing cache write that is made only for a request that was found
S4CacheEntry_found_only(l) ==
    IF l.media.plex_guid # NoStr /\ ~l.resolved_from_cache /\ l.found_request.key[1] # "none"
    THEN "s4_cache2" ELSE IF ~Matched(l) /\ l.show_tmdb_id = NoId /\ l.show_tvdb_id = NoId
    THEN "s5_find" ELSE NotifyEntry(l)

\* `if media.plex_guid and not resolved_from_cache` (inside `if show_tvdb_id_resolved`)
S4CacheEntry(l) ==
    IF l.media.plex_guid # NoStr /\ ~l.resolved_from_cache
    THEN "s4_cache2" ELSE S5Entry(l)

\* `if not matched_request and media.episode_tvdb_id`
S4Entry(l) ==
    IF ~Matched(l) /\ l.media.episode_tvdb_id # NoId
    THEN "s4_lookup" ELSE S5Entry(l)

\* a plex guid strategy that runs whether or not a request was already matched
S3Entry_unguarded(l) ==
    IF l.media.plex_guid # NoStr
    THEN "s3_find" ELSE S4Entry(l)

\* `if not matched_request and media.plex_guid`
S3Entry(l) ==
    IF ~Matched(l) /\ l.media.plex_guid # NoStr
    THEN "s3_find" ELSE S4Entry(l)

\* `if not matched_request and show_tvdb_id and media.media_type == 'tv'`
S2Entry(l) ==
    IF ~Matched(l) /\ l.show_tvdb_id # NoId /\ l.media.media_type = "tv"
    THEN "s2_find" ELSE S3Entry(l)

\* `if show_tmdb_id:` before sync_library and before strategy 1
LibEntry(l) ==
    IF l.show_tmdb_id # NoId THEN "w_lib" ELSE S2Entry(l)

\* leave a step of the matching pipeline for `next`; entering the notifier
\* counts as a call of send_fulfillment_notification
WGoto(p, l, next) ==
    /\ IF next = "w_done"
       THEN /\ pc' = [pc EXCEPT ![p] = "done"]
            /\ resp' = [resp EXCEPT ![p] = webhook_result(l)]
            /\ loc' = [loc EXCEPT ![p] = InitLoc]
       ELSE /\ pc' = [pc EXCEPT ![p] = next]
            /\ resp' = resp
            /\ loc' = [loc EXCEPT ![p] = l]
    /\ notifier_calls' =
          IF next \in {"n_get", "w_done"} /\ Matched(l)
          THEN [notifier_calls EXCEPT
                  ![<<l.matched_request.key, l.matched_request.item.added_at>>] = @ + 1]
          ELSE notifier_calls

\* a mark_as_added call on `key` by a handler
DoMark(key) ==
    /\ mark_as_added_condition(requests[key]) => clock <= MaxStamp
    /\ requests' = mark_as_added(requests, key, clock)
    /\ clock' = IF mark_as_added_condition(requests[key]) THEN clock + 1 ELSE clock
    /\ marks' = IF mark_as_added_condition(requests[key])
                THEN [marks EXCEPT ![key] = @ + 1] ELSE marks

\* every payload Plex can post for the catalogue: any type, either title or none,
\* with or without the show's guid, and any combination of external ids
AllPayloads ==
    {Payload(ev, srv, ty, ti, g, tm, tv) :
        ev \in {"library.new"}, srv \in {PlexServerName},
        ty \in {"movie", "show", "season", "episode", "track"},
        ti \in PlexTitles \cup {NoTitle}, g \in PlexGuids \cup {NoStr},
        tm \in TmdbIds \cup {NoId}, tv \in TvdbIds \cup {NoId}}

\* payloads the handler ignores
IgnoredPayloads ==
    {Payload("media.play", PlexServerName, "movie", CatalogTitle, NoStr, 1, NoId),
     Payload("library.new", "other", "movie", CatalogTitle, NoStr, 1, NoId),
     Payload("library.new", PlexServerName, "track", CatalogTitle, NoStr, NoId, NoId)}

\* one payload per way an item of the catalogue can reach a request
WebhookPayloads ==
    {\* a movie with its tmdb id: strategy 1
     Payload("library.new", PlexServerName, "movie", <<"B", "a", "r">>,
             "plex://show/abc", 1, NoId),
     \* a show known to Plex by tvdb id only: strategy 2
     Payload("library.new", PlexServerName, "show", <<"B", "a", "r">>,
             "plex://show/abc", NoId, ShowTvdb(1)),
     \* a season, which carries the show's guid and no ids: strategy 3
     Payload("library.new", PlexServerName, "season", <<"B", "a", "r">>,
             "plex://show/abc", NoId, NoId),
     \* an episode of show 1 with its own tvdb id: strategy 4
     Payload("library.new", PlexServerName, "episode", <<"B", "a", "r">>,
             "plex://show/abc", NoId, ShowTvdb(MaxTmdb)),
     \* a movie without ids: strategy 5
     Payload("library.new", PlexServerName, "movie", <<"f", "o", "o", "!">>,
             "plex://show/abc", NoId, NoId)}
    \cup IgnoredPayloads

\* filters that let a webhook of any server through
ignore_reason_any_server(data, media) ==
    IF data.event # "library.new" THEN "event"
    ELSE IF media = NoMedia THEN "type"
    ELSE NoStr

\* the three early returns of plex_webhook, in the order of the code: the event,
\* the server title when settings.plex_server_name is set, and `if not media`
ignore_reason(data, media) ==
    IF data.event # "library.new" THEN "event"
    ELSE IF PlexServerName # NoStr /\ data.Server # PlexServerName THEN "server"
    ELSE IF media = NoMedia THEN "type"
    ELSE NoStr

\* a dependency that lets every request with a token pass
verify_plex_webhook_token_any(token, configured) ==
    IF configured = NoStr THEN 401
    ELSE IF token = NoStr THEN 401
    ELSE 200

\* verify_plex_webhook_token: 200, or the status it raises: no token configured,
\* no token given, or compare_digest(token, settings.plex_webhook_token) fails
verify_plex_webhook_token(token, configured) ==
    IF configured = NoStr THEN 401
    ELSE IF token = NoStr THEN 401
    ELSE IF token # configured THEN 401
    ELSE 200

\* the 401 of the dependency (hist_token, the token of the call, is history)
unauthorized_result(token) == [kind |-> "unauthorized", code |-> 401, hist_token |-> token]

\* POST /webhook/plex?token=...: verify_plex_webhook_token, the event and server
\* filters, parse_plex_payload, and the
\* GUID-cache lookup for an episode or a season
plex_webhook(p, token, data) ==
    /\ pc[p] = "idle"
    /\ calls < MaxCalls
    /\ calls' = calls + 1
    /\ LET media == parse_plex_payload(data.Metadata)
           lookup == media.plex_type \in {"episode", "season"} /\ media.plex_guid # NoStr
           cached == get_plex_guid_cache(guid_cache, media.plex_guid)
           l == [InitLoc EXCEPT
                   !.token = token,
                   !.media = media,
                   !.show_tmdb_id = IF lookup THEN cached.tmdb_id ELSE media.tmdb_id,
                   !.show_tvdb_id = IF lookup THEN cached.tvdb_id ELSE media.tvdb_id,
                   !.resolved_from_cache = lookup /\ cached.cached]
       IN IF verify_plex_webhook_token(token, plex_webhook_token) # 200 THEN
              /\ pc' = [pc EXCEPT ![p] = "done"]
              /\ resp' = [resp EXCEPT ![p] = unauthorized_result(token)]
              /\ UNCHANGED <<loc, notifier_calls>>
          ELSE IF ignore_reason(data, media) # NoStr THEN
              /\ pc' = [pc EXCEPT ![p] = "done"]
              /\ resp' = [resp EXCEPT ![p] = ignored_result(ignore_reason(data, media))]
              /\ UNCHANGED <<loc, notifier_calls>>
          ELSE WGoto(p, l, LibEntry(l))
    /\ UNCHANGED <<replay, authvars, requests, library, guid_cache, push_subs, clock, push_sent, marks, feed>>

\* frame of a step that touches neither table nor history
Others == <<calls, feed, push_subs, push_sent>>

\* db.sync_library([{tmdb_id: show_tmdb_id, ...}], media_type, clear_first=False)
w_lib(p) ==
    /\ pc[p] = "w_lib"
    /\ LET l == loc[p]
           item == [tmdb_id |-> l.show_tmdb_id, tvdb_id |-> l.show_tvdb_id,
                    title |-> l.media.title]
       IN /\ library' = sync_library(library, <<item>>, l.media.media_type, FALSE)
          /\ WGoto(p, [l EXCEPT !.added_to_library = TRUE], "s1_mark")
    /\ UNCHANGED <<replay, authvars, requests, guid_cache, clock, marks, Others>>

\* 1. matched_request = db.mark_as_added(show_tmdb_id, media.media_type)
s1_mark(p) ==
    /\ pc[p] = "s1_mark"
    /\ LET l == loc[p]
           key == <<l.media.media_type, l.show_tmdb_id>>
           l2 == [l EXCEPT !.matched_request = mark_as_added_result(requests, key, clock)]
       IN /\ DoMark(key)
          /\ WGoto(p, l2, IF Matched(l2) /\ l.media.plex_guid # NoStr
                          THEN "s1_guid" ELSE S2Entry(l2))
    /\ UNCHANGED <<replay, authvars, library, guid_cache, Others>>

\* db.update_plex_guid(show_tmdb_id, media.media_type, media.plex_guid)
s1_guid(p) ==
    /\ pc[p] = "s1_guid"
    /\ LET l == loc[p]
       IN /\ requests' = update_plex_guid(requests, <<l.media.media_type, l.show_tmdb_id>>,
                                          l.media.plex_guid)
          /\ WGoto(p, l, "s1_cache")
    /\ UNCHANGED <<replay, authvars, library, guid_cache, clock, marks, Others>>

\* db.set_plex_guid_cache(media.plex_guid, show_tmdb_id, show_tvdb_id)
s1_cache(p) ==
    /\ pc[p] = "s1_cache"
    /\ LET l == loc[p]
       IN /\ guid_cache' = set_plex_guid_cache(guid_cache, l.media.plex_guid,
                                               l.show_tmdb_id, l.show_tvdb_id)
          /\ WGoto(p, l, S2Entry(l))
    /\ UNCHANGED <<replay, authvars, requests, library, clock, marks, Others>>

\* 2. found_request = db.find_by_tvdb_id(show_tvdb_id, media.media_type)
s2_find(p) ==
    /\ pc[p] = "s2_find"
    /\ LET l == loc[p]
       IN \E f \in found_by_tvdb_id(requests, l.show_tvdb_id, l.media.media_type) :
            WGoto(p, [l EXCEPT !.found_request = f],
                  IF f # NoFound THEN "s2_mark" ELSE S3Entry(l))
    /\ UNCHANGED <<replay, authvars, requests, library, guid_cache, clock, marks, Others>>

\* matched_request = db.mark_as_added(found_request['tmdb_id'], media.media_type)
s2_mark(p) ==
    /\ pc[p] = "s2_mark"
    /\ LET l == loc[p]
           key == <<l.media.media_type, l.found_request.key[2]>>
           l2 == [l EXCEPT !.matched_request = mark_as_added_result(requests, key, clock)]
       IN /\ DoMark(key)
          /\ WGoto(p, l2, IF Matched(l2) /\ l.media.plex_guid # NoStr
                          THEN "s2_guid" ELSE S3Entry(l2))
    /\ UNCHANGED <<replay, authvars, library, guid_cache, Others>>

s2_guid(p) ==
    /\ pc[p] = "s2_guid"
    /\ LET l == loc[p]
       IN /\ requests' = update_plex_guid(requests,
                              <<l.media.media_type, l.found_request.key[2]>>,
                              l.media.plex_guid)
          /\ WGoto(p, l, "s2_cache")
    /\ UNCHANGED <<replay, authvars, library, guid_cache, clock, marks, Others>>

\* db.set_plex_guid_cache(media.plex_guid, found_request['tmdb_id'], show_tvdb_id)
s2_cache(p) ==
    /\ pc[p] = "s2_cache"
    /\ LET l == loc[p]
       IN /\ guid_cache' = set_plex_guid_cache(guid_cache, l.media.plex_guid,
                                               l.found_request.key[2], l.show_tvdb_id)
          /\ WGoto(p, l, S3Entry(l))
    /\ UNCHANGED <<replay, authvars, requests, library, clock, marks, Others>>

\* 3. found_request = db.find_by_plex_guid(media.plex_guid)
s3_find(p) ==
    /\ pc[p] = "s3_find"
    /\ LET l == loc[p]
       IN \E f \in FirstOf(requests, find_by_plex_guid(requests, l.media.plex_guid)) :
            WGoto(p, [l EXCEPT !.found_request = f],
                  IF f # NoFound THEN "s3_mark" ELSE S4Entry(l))
    /\ UNCHANGED <<replay, authvars, requests, library, guid_cache, clock, marks, Others>>

\* matched_request = db.mark_as_added(found_request['tmdb_id'], found_request['media_type'])
s3_mark(p) ==
    /\ pc[p] = "s3_mark"
    /\ LET l == loc[p]
           key == l.found_request.key
           l2 == [l EXCEPT !.matched_request = mark_as_added_result(requests, key, clock)]
       IN /\ DoMark(key)
          /\ WGoto(p, l2, IF Matched(l2) /\ ~l.resolved_from_cache
                          THEN "s3_cache" ELSE S4Entry(l2))
    /\ UNCHANGED <<replay, authvars, library, guid_cache, Others>>

\* db.set_plex_guid_cache(media.plex_guid, found_request['tmdb_id'], found_request.get('tvdb_id'))
s3_cache(p) ==
    /\ pc[p] = "s3_cache"
    /\ LET l == loc[p]
       IN /\ guid_cache' = set_plex_guid_cache(guid_cache, l.media.plex_guid,
                                               l.found_request.key[2],
                                               l.found_request.tvdb_id)
          /\ WGoto(p, l, S4Entry(l))
    /\ UNCHANGED <<replay, authvars, requests, library, clock, marks, Others>>

\* what can come of one reverse lookup: TheTVDB answers 200 with the episode,
\* answers 404, answers another status, cannot be reached, refuses the login, or
\* no API key is configured
TvdbAnswers == {"200", "404", "500", "network", "login", "no_api_key"}

\* a lookup that lets everything but a 404 escape as an exception
lookup_raises_on_error(answer) == answer \in {"500", "network", "login"}

\* does get_series_id_from_episode raise?  _get_token returns None without a
\* key or a login, and the request sits in try / except Exception
lookup_raises(answer) == FALSE

\* tvdb.get_series_id_from_episode: data.seriesId of the answer, or None
get_series_id_from_episode(answer, episode_tvdb_id) ==
    IF answer = "200" THEN SeriesOfEpisode(episode_tvdb_id) ELSE NoId

\* 4. show_tvdb_id_resolved = tvdb.get_series_id_from_episode(media.episode_tvdb_id)
s4_lookup(p) ==
    /\ pc[p] = "s4_lookup"
    /\ \E answer \in TvdbAnswers :
         LET l == [loc[p] EXCEPT !.tvdb_answer = answer]
             r == get_series_id_from_episode(answer, l.media.episode_tvdb_id)
         IN IF lookup_raises(answer)
            THEN /\ pc' = [pc EXCEPT ![p] = "done"]
                 /\ resp' = [resp EXCEPT ![p] = failed_result]
                 /\ loc' = [loc EXCEPT ![p] = InitLoc]
                 /\ UNCHANGED notifier_calls
            ELSE WGoto(p, [l EXCEPT !.show_tvdb_id_resolved = r],
                       IF r # NoId THEN "s4_find" ELSE S5Entry(l))
    /\ UNCHANGED <<replay, authvars, requests, library, guid_cache, clock, marks, Others>>

\* found_request = db.find_by_tvdb_id(show_tvdb_id_resolved, 'tv')
s4_find(p) ==
    /\ pc[p] = "s4_find"
    /\ LET l == loc[p]
       IN \E f \in found_by_tvdb_id(requests, l.show_tvdb_id_resolved, "tv") :
            LET l2 == [l EXCEPT !.found_request = f]
            IN WGoto(p, l2, IF f # NoFound THEN "s4_mark" ELSE S4CacheEntry(l2))
    /\ UNCHANGED <<replay, authvars, requests, library, guid_cache, clock, marks, Others>>

\* matched_request = db.mark_as_added(found_request['tmdb_id'], 'tv')
s4_mark(p) ==
    /\ pc[p] = "s4_mark"
    /\ LET l == loc[p]
           key == <<"tv", l.found_request.key[2]>>
           l2 == [l EXCEPT !.matched_request = mark_as_added_result(requests, key, clock)]
       IN /\ DoMark(key)
          /\ WGoto(p, l2, IF Matched(l2) /\ l.media.plex_guid # NoStr
                          THEN "s4_guid" ELSE S4CacheEntry(l2))
    /\ UNCHANGED <<replay, authvars, library, guid_cache, Others>>

\* db.update_plex_guid(found_request['tmdb_id'], 'tv', media.plex_guid)
s4_guid(p) ==
    /\ pc[p] = "s4_guid"
    /\ LET l == loc[p]
       IN /\ requests' = update_plex_guid(requests, <<"tv", l.found_request.key[2]>>,
                                          l.media.plex_guid)
          /\ WGoto(p, l, "s4_cache")
    /\ UNCHANGED <<replay, authvars, library, guid_cache, clock, marks, Others>>

\* db.set_plex_guid_cache(media.plex_guid, found_request['tmdb_id'], show_tvdb_id_resolved)
s4_cache(p) ==
    /\ pc[p] = "s4_cache"
    /\ LET l == loc[p]
       IN /\ guid_cache' = set_plex_guid_cache(guid_cache, l.media.plex_guid,
                                               l.found_request.key[2],
                                               l.show_tvdb_id_resolved)
          /\ WGoto(p, l, S4CacheEntry(l))
    /\ UNCHANGED <<replay, authvars, requests, library, clock, marks, Others>>

\* the trailing cache write of strategy 4: the found request's tmdb id, or None
s4_cache2(p) ==
    /\ pc[p] = "s4_cache2"
    /\ LET l == loc[p]
       IN /\ guid_cache' = set_plex_guid_cache(guid_cache, l.media.plex_guid,
                                IF l.found_request # NoFound
                                THEN l.found_request.key[2] ELSE NoId,
                                l.show_tvdb_id_resolved)
          /\ WGoto(p, l, S5Entry(l))
    /\ UNCHANGED <<replay, authvars, requests, library, clock, marks, Others>>

\* 5. found_request = db.find_by_title(media.title, media.media_type, media.year)
s5_find(p) ==
    /\ pc[p] = "s5_find"
    /\ LET l == loc[p]
       IN \E f \in FirstOf(requests, find_by_title(requests, l.media.title,
                                                   l.media.media_type)) :
            WGoto(p, [l EXCEPT !.found_request = f],
                  IF f # NoFound THEN "s5_mark" ELSE NotifyEntry(l))
    /\ UNCHANGED <<replay, authvars, requests, library, guid_cache, clock, marks, Others>>

\* matched_request = db.mark_as_added(found_request['tmdb_id'], media.media_type)
s5_mark(p) ==
    /\ pc[p] = "s5_mark"
    /\ LET l == loc[p]
           key == <<l.media.media_type, l.found_request.key[2]>>
           l2 == [l EXCEPT !.matched_request = mark_as_added_result(requests, key, clock)]
       IN /\ DoMark(key)
          /\ WGoto(p, l2, IF Matched(l2) THEN "s5_lib" ELSE NotifyEntry(l2))
    /\ UNCHANGED <<replay, authvars, library, guid_cache, Others>>

\* db.sync_library([{tmdb_id: found_request['tmdb_id'], ...}], media_type, clear_first=False)
s5_lib(p) ==
    /\ pc[p] = "s5_lib"
    /\ LET l == loc[p]
           item == [tmdb_id |-> l.found_request.key[2], tvdb_id |-> l.found_request.tvdb_id,
                    title |-> l.media.title]
           l2 == [l EXCEPT !.added_to_library = TRUE]
       IN /\ library' = sync_library(library, <<item>>, l.media.media_type, FALSE)
          /\ WGoto(p, l2, IF l.media.plex_guid # NoStr THEN "s5_guid" ELSE NotifyEntry(l2))
    /\ UNCHANGED <<replay, authvars, requests, guid_cache, clock, marks, Others>>

s5_guid(p) ==
    /\ pc[p] = "s5_guid"
    /\ LET l == loc[p]
       IN /\ requests' = update_plex_guid(requests,
                              <<l.media.media_type, l.found_request.key[2]>>,
                              l.media.plex_guid)
          /\ WGoto(p, l, "s5_cache")
    /\ UNCHANGED <<replay, authvars, library, guid_cache, clock, marks, Others>>

s5_cache(p) ==
    /\ pc[p] = "s5_cache"
    /\ LET l == loc[p]
       IN /\ guid_cache' = set_plex_guid_cache(guid_cache, l.media.plex_guid,
                                               l.found_request.key[2],
                                               l.found_request.tvdb_id)
          /\ WGoto(p, l, NotifyEntry(l))
    /\ UNCHANGED <<replay, authvars, requests, library, clock, marks, Others>>

\* ---------------------------------------------- send_fulfillment_notification

\* the handler returns its result with this notification_sent
NDone(p, l, sent) ==
    /\ pc' = [pc EXCEPT ![p] = "done"]
    /\ resp' = [resp EXCEPT ![p] = webhook_result([l EXCEPT !.notification_sent = sent])]
    /\ loc' = [loc EXCEPT ![p] = InitLoc]

\* subscription = db.get_push_subscription(requested_by)
n_get(p) ==
    /\ pc[p] = "n_get"
    /\ LET l == loc[p]
       IN IF push_subs[l.matched_request.item.requested_by]
          THEN /\ pc' = [pc EXCEPT ![p] = "n_send"]
               /\ UNCHANGED <<loc, resp>>
          ELSE NDone(p, l, FALSE)
    /\ UNCHANGED <<replay, authvars, requests, library, guid_cache, clock, marks, notifier_calls, Others>>

\* what can come of one web push: the push service's HTTP status, no answer at
\* all (URLError), or a failure to encrypt for the stored keys (KeyError)
PushAnswers == {"201", "404", "410", "500", "URLError", "KeyError"}

\* a send_push that reports every HTTP error as an expired subscription
send_push_any_http_error(answer) ==
    IF answer = "201" THEN "True"
    ELSE IF answer \in {"404", "410", "500"} THEN "False"
    ELSE "raise"

\* webpush.send_push: True on a 2xx answer, False on 404 and 410, an exception
\* for everything else
send_push(answer) ==
    IF answer = "201" THEN "True"
    ELSE IF answer \in {"404", "410"} THEN "False"
    ELSE "raise"

\* a notifier without its except clause: what send_push raises escapes
notification_result_uncaught(pushed) == pushed

\* what send_fulfillment_notification returns for an outcome of send_push:
\* `return success`, and `return False` in the except clause
notification_result(pushed) == IF pushed = "raise" THEN "False" ELSE pushed

\* success = webpush.send_push(...) inside try / except Exception
n_send(p) ==
    /\ pc[p] = "n_send"
    /\ \E answer \in PushAnswers :
         LET l == [loc[p] EXCEPT !.push_answer = answer]
             mk == <<l.matched_request.key, l.matched_request.item.added_at>>
         IN IF notification_result(send_push(answer)) = "raise"
            THEN /\ pc' = [pc EXCEPT ![p] = "done"]
                 /\ resp' = [resp EXCEPT ![p] = failed_result]
                 /\ loc' = [loc EXCEPT ![p] = InitLoc]
                 /\ UNCHANGED push_sent
            ELSE IF send_push(answer) = "True"
            THEN /\ push_sent' = [push_sent EXCEPT ![mk] = @ + 1]
                 /\ NDone(p, l, TRUE)
            ELSE IF send_push(answer) = "False"
            THEN /\ pc' = [pc EXCEPT ![p] = "n_del"]
                 /\ loc' = [loc EXCEPT ![p] = l]
                 /\ UNCHANGED <<resp, push_sent>>
            ELSE /\ NDone(p, l, FALSE)
                 /\ UNCHANGED push_sent
    /\ UNCHANGED <<replay, authvars, requests, library, guid_cache, clock, marks, notifier_calls,
                   calls, feed, push_subs>>

\* db.delete_push_subscription(requested_by) after an expired subscription
n_del(p) ==
    /\ pc[p] = "n_del"
    /\ LET l == [loc[p] EXCEPT !.sub_deleted = TRUE]
       IN /\ push_subs' = [push_subs EXCEPT ![l.matched_request.item.requested_by] = FALSE]
          /\ NDone(p, l, FALSE)
    /\ UNCHANGED <<replay, authvars, requests, library, guid_cache, clock, marks, notifier_calls,
                   calls, feed, push_sent>>

\* the handler has sent its response; the worker takes the next request
Return(p) ==
    /\ pc[p] = "done"
    /\ pc' = [pc EXCEPT ![p] = "idle"]
    /\ resp' = [resp EXCEPT ![p] = NoResp]
    /\ loc' = [loc EXCEPT ![p] = InitLoc]
    /\ aloc' = [aloc EXCEPT ![p] = InitALoc]
    /\ UNCHANGED <<replay, bucket, wall_clock, rate_limit_enabled, session, wire, tvdb_client, plex_webhook_token, win, requests, library,
                   guid_cache, clock, marks, notifier_calls, Others>>

\* ------------------------------------------------------------ POST /sync/library

\* the items a sync script posts: tmdb_id may be missing, tvdb_id is not sent
SyncItem(id) == [tmdb_id |-> id, tvdb_id |-> NoId, title |-> CatalogTitle]

SyncBodies ==
    UNION {[1..n -> {SyncItem(id) : id \in TmdbIds \cup {NoId}}] : n \in 0..MaxItems}

sync_result(l) ==
    [kind |-> "sync", code |-> 200, status |-> "success", synced |-> l.count,
     marked_as_added |-> l.marked, media_type |-> l.media_type, hist_newly |-> l.newly,
     hist_items |-> l.items, hist_clear |-> l.clear, hist_token |-> l.token]

\* POST /sync/library?token=...: verify_plex_webhook_token, the media_type check,
\* then count = db.sync_library(data, media_type, clear_first=clear)
sync_library_endpoint(p, token, media_type, clear, data) ==
    /\ pc[p] = "idle"
    /\ calls < MaxCalls
    /\ calls' = calls + 1
    /\ IF verify_plex_webhook_token(token, plex_webhook_token) # 200 THEN
           /\ pc' = [pc EXCEPT ![p] = "done"]
           /\ resp' = [resp EXCEPT ![p] = unauthorized_result(token)]
           /\ UNCHANGED <<loc, library>>
       ELSE IF media_type \notin {"movie", "tv"} THEN
           /\ pc' = [pc EXCEPT ![p] = "done"]
           /\ resp' = [resp EXCEPT ![p] = [kind |-> "sync", code |-> 400]]
           /\ UNCHANGED <<loc, library>>
       ELSE
           LET l == [InitLoc EXCEPT !.items = data, !.media_type = media_type, !.i = 1,
                                    !.clear = clear, !.token = token,
                                    !.count = sync_library_count(data)]
           IN /\ library' = sync_library(library, data, media_type, clear)
              /\ IF Len(data) = 0
                 THEN /\ pc' = [pc EXCEPT ![p] = "done"]
                      /\ resp' = [resp EXCEPT ![p] = sync_result(l)]
                      /\ loc' = loc
                 ELSE /\ pc' = [pc EXCEPT ![p] = "sync_mark"]
                      /\ loc' = [loc EXCEPT ![p] = l]
                      /\ resp' = resp
    /\ UNCHANGED <<replay, authvars, requests, guid_cache, push_subs, clock, push_sent, marks, feed,
                   notifier_calls>>

\* a count that goes up for every item that has a tmdb_id
marked_after_every_call(marked, called, result) == IF called THEN marked + 1 ELSE marked

\* `if tmdb_id: if db.mark_as_added(tmdb_id, media_type): marked += 1`
marked_after(marked, called, result) == IF called /\ result THEN marked + 1 ELSE marked

\* one iteration of `for item in data`: mark_as_added for an item with a tmdb_id;
\* after the last item the handler returns the counts
sync_mark(p) ==
    /\ pc[p] = "sync_mark"
    /\ LET l == loc[p]
           tmdb_id == l.items[l.i].tmdb_id
           key == <<l.media_type, tmdb_id>>
           hit == tmdb_id # NoId /\ mark_as_added_condition(requests[key])
           l2 == [l EXCEPT !.i = @ + 1,
                           !.marked = marked_after(@, tmdb_id # NoId, hit),
                           !.newly = IF hit THEN @ \cup {<<key, clock>>} ELSE @]
       IN /\ IF tmdb_id # NoId THEN DoMark(key)
             ELSE UNCHANGED <<requests, clock, marks>>
          /\ IF l2.i > Len(l.items)
             THEN /\ pc' = [pc EXCEPT ![p] = "done"]
                  /\ resp' = [resp EXCEPT ![p] = sync_result(l2)]
                  /\ loc' = [loc EXCEPT ![p] = InitLoc]
             ELSE /\ loc' = [loc EXCEPT ![p] = l2]
                  /\ UNCHANGED <<pc, resp>>
    /\ UNCHANGED <<replay, authvars, library, guid_cache, notifier_calls, Others>>

\* ------------------------------------------------------------- request API

\* the body POST /api/request answers with
create_result(key, success) == [kind |-> "create", code |-> 200, key |-> key, success |-> success]

\* add_request on SQLite: INSERT OR IGNORE raises nothing for an existing key,
\* and the function returns True after the commit
add_request_sqlite(item) == TRUE

\* add_request on DynamoDB: True after the conditional put, False on
\* ConditionalCheckFailedException
add_request(item) == add_request_condition(item)

\* POST /api/request: TMDB supplies the title and, for a show, its tvdb id
\* (which TMDB may not know); db.add_request writes the item if the key is free
create_request(p, media_type, tmdb_id, requested_by) ==
    /\ pc[p] = "idle"
    /\ calls < MaxCalls
    /\ calls' = calls + 1
    /\ \E tvdb_id \in (IF media_type = "tv" THEN {NoId, ShowTvdb(tmdb_id)} ELSE {NoId}) :
         LET key == <<media_type, tmdb_id>>
         IN /\ IF add_request_condition(requests[key])
               THEN /\ requests' = [requests EXCEPT
                                      ![key] = add_request_item(CatalogTitle, tvdb_id, requested_by)]
                    /\ marks' = [marks EXCEPT ![key] = 0]
               ELSE UNCHANGED <<requests, marks>>
            /\ resp' = [resp EXCEPT ![p] = create_result(key, add_request(requests[key]))]
    /\ pc' = [pc EXCEPT ![p] = "done"]
    /\ UNCHANGED <<replay, authvars, library, guid_cache, push_subs, clock, loc, notifier_calls,
                   push_sent, feed>>

\* POST /api/request of the SQLite backend: the request has no requested_by
create_request_sqlite(p, media_type, tmdb_id) ==
    /\ pc[p] = "idle"
    /\ calls < MaxCalls
    /\ calls' = calls + 1
    /\ \E tvdb_id \in (IF media_type = "tv" THEN {NoId, ShowTvdb(tmdb_id)} ELSE {NoId}) :
         LET key == <<media_type, tmdb_id>>
         IN /\ IF add_request_condition(requests[key])
               THEN /\ requests' = [requests EXCEPT
                                      ![key] = add_request_item(CatalogTitle, tvdb_id, NoStr)]
                    /\ marks' = [marks EXCEPT ![key] = 0]
               ELSE UNCHANGED <<requests, marks>>
            /\ resp' = [resp EXCEPT ![p] = create_result(key, add_request_sqlite(requests[key]))]
    /\ pc' = [pc EXCEPT ![p] = "done"]
    /\ UNCHANGED <<replay, authvars, library, guid_cache, push_subs, clock, loc, notifier_calls,
                   push_sent, feed>>

\* remove_request: what the call returns.  DeleteItem (and SQLite's DELETE)
\* succeeds whether or not the key has an item; False is for a storage error
remove_request_result(tbl, key) == TRUE

\* the answer of DELETE /api/request: the success body, or HTTPException(404)
delete_result(key, success) ==
    [kind |-> "delete", code |-> IF success THEN 200 ELSE 404, key |-> key,
     success |-> success]

\* DELETE /api/request/{media_type}/{tmdb_id}: db.remove_request
delete_request(p, media_type, tmdb_id) ==
    /\ pc[p] = "idle"
    /\ calls < MaxCalls
    /\ calls' = calls + 1
    /\ requests' = remove_request(requests, <<media_type, tmdb_id>>)
    /\ marks' = [marks EXCEPT ![<<media_type, tmdb_id>>] = 0]
    /\ pc' = [pc EXCEPT ![p] = "done"]
    /\ resp' = [resp EXCEPT ![p] = delete_result(<<media_type, tmdb_id>>,
                                      remove_request_result(requests, <<media_type, tmdb_id>>))]
    /\ UNCHANGED <<replay, authvars, library, guid_cache, push_subs, clock, loc, notifier_calls,
                   push_sent, feed>>

\* POST /api/push/subscribe: db.save_push_subscription(user_name, ...)
subscribe_push(user_name) ==
    /\ calls < MaxCalls
    /\ calls' = calls + 1
    /\ push_subs' = [push_subs EXCEPT ![user_name] = TRUE]
    /\ UNCHANGED <<replay, authvars, requests, library, guid_cache, clock, pc, loc, resp, notifier_calls,
                   push_sent, marks, feed>>

\* ------------------------------------------------- Sonarr / Radarr lists

DigitChars == <<"0", "1", "2", "3", "4", "5", "6", "7", "8", "9">>

\* Python's str() of a non-negative int: its decimal digits
RECURSIVE str(_)
str(n) == IF n < 10 THEN <<DigitChars[n + 1]>>
          ELSE str(n \div 10) \o <<DigitChars[(n % 10) + 1]>>

\* the rows of get_all_requests(media_type) as a list (by tmdb id)
RECURSIVE rows_from(_, _, _)
rows_from(tbl, media_type, id) ==
    IF id > MaxTmdb THEN <<>>
    ELSE (IF <<media_type, id>> \in get_all_requests(tbl, media_type)
          THEN <<[key |-> <<media_type, id>>, item |-> tbl[<<media_type, id>>]]>>
          ELSE <<>>) \o rows_from(tbl, media_type, id + 1)

\* `[r for r in all_requests if not r.get('added_at')]`
RECURSIVE pending_only(_)
pending_only(rows) ==
    IF rows = <<>> THEN <<>>
    ELSE (IF Head(rows).item.added_at = NoTime THEN <<Head(rows)>> ELSE <<>>)
         \o pending_only(Tail(rows))

\* the Radarr list body: one {"title": ...} per row
RECURSIVE radarr_items(_)
radarr_items(rows) ==
    IF rows = <<>> THEN <<>>
    ELSE <<[title |-> Head(rows).item.title]>> \o radarr_items(Tail(rows))

\* a Sonarr list body that does not skip the rows without a tvdb_id
RECURSIVE sonarr_items_unfiltered(_)
sonarr_items_unfiltered(rows) ==
    IF rows = <<>> THEN <<>>
    ELSE <<[tvdbId |-> str(Head(rows).item.tvdb_id)]>> \o sonarr_items_unfiltered(Tail(rows))

\* the Sonarr list body: one {"tvdbId": str(tvdb_id)} per row that has a tvdb_id
RECURSIVE sonarr_items(_)
sonarr_items(rows) ==
    IF rows = <<>> THEN <<>>
    ELSE (IF Head(rows).item.tvdb_id # NoId
          THEN <<[tvdbId |-> str(Head(rows).item.tvdb_id)]>> ELSE <<>>)
         \o sonarr_items(Tail(rows))

\* the rows a body was built from, in body order (history)
RECURSIVE sonarr_rows(_)
sonarr_rows(rows) ==
    IF rows = <<>> THEN <<>>
    ELSE (IF Head(rows).item.tvdb_id # NoId THEN <<Head(rows)>> ELSE <<>>)
         \o sonarr_rows(Tail(rows))

NoFeed == [kind |-> "none", items |-> <<>>, hist_rows |-> <<>>, serial |-> 0]

\* GET /list/radarr of the shared application
list_radarr ==
    /\ calls < MaxCalls
    /\ calls' = calls + 1
    /\ LET rows == pending_only(rows_from(requests, "movie", 1))
       IN feed' = [kind |-> "list_radarr", items |-> radarr_items(rows),
                   hist_rows |-> rows, serial |-> calls']
    /\ UNCHANGED <<replay, authvars, requests, library, guid_cache, push_subs, clock, pc, loc, resp,
                   notifier_calls, push_sent, marks>>

\* GET /list/sonarr of the shared application
list_sonarr ==
    /\ calls < MaxCalls
    /\ calls' = calls + 1
    /\ LET rows == pending_only(rows_from(requests, "tv", 1))
       IN feed' = [kind |-> "list_sonarr", items |-> sonarr_items(rows),
                   hist_rows |-> sonarr_rows(rows), serial |-> calls']
    /\ UNCHANGED <<replay, authvars, requests, library, guid_cache, push_subs, clock, pc, loc, resp,
                   notifier_calls, push_sent, marks>>

\* GET /list/radarr of the SQLite backend: rss.generate_radarr_json
generate_radarr_json ==
    /\ calls < MaxCalls
    /\ calls' = calls + 1
    /\ LET rows == rows_from(requests, "movie", 1)
       IN feed' = [kind |-> "generate_radarr_json", items |-> radarr_items(rows),
                   hist_rows |-> rows, serial |-> calls']
    /\ UNCHANGED <<replay, authvars, requests, library, guid_cache, push_subs, clock, pc, loc, resp,
                   notifier_calls, push_sent, marks>>

\* GET /list/sonarr of the SQLite backend: rss.generate_sonarr_json
generate_sonarr_json ==
    /\ calls < MaxCalls
    /\ calls' = calls + 1
    /\ LET rows == rows_from(requests, "tv", 1)
       IN feed' = [kind |-> "generate_sonarr_json", items |-> sonarr_items(rows),
                   hist_rows |-> sonarr_rows(rows), serial |-> calls']
    /\ UNCHANGED <<replay, authvars, requests, library, guid_cache, push_subs, clock, pc, loc, resp,
                   notifier_calls, push_sent, marks>>

\* ----------------------------------------------- login and its rate limiter

\* RATE_LIMIT_MAX_ATTEMPTS of the deployment (an environment setting)
RATE_LIMIT_MAX_ATTEMPTS == 2
\* RATE_LIMIT_WINDOW_SECONDS, and the allowed skew of a challenge's timestamp
RATE_LIMIT_WINDOW_SECONDS == 900
AUTH_TIME_WINDOW_SECONDS == 300

\* the wall clock advances half a window at a time, MaxTicks times
MaxTicks == 3
TickSeconds == RATE_LIMIT_WINDOW_SECONDS \div 2
\* number of POST /api/auth/verify calls in one run
MaxVerify == 4

NoBucket == [exists |-> FALSE, failed_attempts |-> 0, first_attempt |-> 0, ttl |-> 0]

\* `current_time - first_attempt > window_seconds`
window_expired(current_time, first_attempt, window_seconds) ==
    current_time - first_attempt > window_seconds

\* a check_rate_limit that counts the failures of an expired window
check_rate_limit_no_expiry(item, current_time, max_attempts, window_seconds) ==
    ~item.exists \/ item.failed_attempts < max_attempts

\* check_rate_limit: is the client allowed to try?  (storage is available: the
\* fail-open branch of a storage error is not taken)
check_rate_limit(item, current_time, max_attempts, window_seconds) ==
    IF ~item.exists THEN TRUE
    ELSE IF window_expired(current_time, item.first_attempt, window_seconds) THEN TRUE
    ELSE IF item.failed_attempts >= max_attempts THEN FALSE
    ELSE TRUE

\* record_failed_attempt's UpdateItem: failed_attempts = if_not_exists(failed_attempts, 0) + 1,
\* first_attempt = if_not_exists(first_attempt, now), ttl = now + window + 60
record_failed_update(item, current_time, window_seconds) ==
    [exists |-> TRUE,
     failed_attempts |-> (IF item.exists THEN item.failed_attempts ELSE 0) + 1,
     first_attempt |-> IF item.exists THEN item.first_attempt ELSE current_time,
     ttl |-> current_time + window_seconds + 60]

\* record_failed_attempt's PutItem after an expired window
record_failed_reset(current_time, window_seconds) ==
    [exists |-> TRUE, failed_attempts |-> 1, first_attempt |-> current_time,
     ttl |-> current_time + window_seconds + 60]

\* a clear_rate_limit whose delete does not reach the item
clear_rate_limit_keeps_item(item) == item

\* clear_rate_limit: delete_item on the IP's key
clear_rate_limit(item) == NoBucket

\* a verify_auth that does not stop at a denied rate-limit check
rate_limit_check_ignored(allowed) == FALSE

\* `if not allowed: raise HTTPException(status_code=429, ...)`
rate_limit_denies(allowed) == ~allowed

NoWin == [count |-> 0, first |-> 0, clears |-> 0]

\* the failures of the current window, counted one at a time (history)
win_record(w, current_time, window_seconds) ==
    IF w.count = 0 \/ window_expired(current_time, w.first, window_seconds)
    THEN [w EXCEPT !.count = 1, !.first = current_time]
    ELSE [w EXCEPT !.count = @ + 1]

InitLimiter ==
    /\ bucket = NoBucket
    /\ wall_clock = 0
    /\ aloc = [p \in Procs |-> InitALoc]
    /\ win = NoWin

verify_result(code) == [kind |-> "verify", code |-> code]

\* frame of a verify_auth step: the application's tables and histories
appvars == <<requests, library, guid_cache, push_subs, clock, loc, notifier_calls,
             push_sent, marks, feed, replay>>

\* POST /api/auth/verify, up to the rate-limit check
verify_auth(p, data) ==
    /\ pc[p] = "idle"
    /\ calls < MaxVerify
    /\ calls' = calls + 1
    /\ IF rate_limit_enabled
       THEN LET allowed == check_rate_limit(bucket, wall_clock, RATE_LIMIT_MAX_ATTEMPTS,
                                            RATE_LIMIT_WINDOW_SECONDS)
                l == [InitALoc EXCEPT
                        !.data = data,
                        !.trace = <<"check_rate_limit">>,
                        !.checked = TRUE,
                        !.allowed = allowed,
                        !.hist_full =
                            /\ win.count >= RATE_LIMIT_MAX_ATTEMPTS
                            /\ bucket.exists
                            /\ ~window_expired(wall_clock, bucket.first_attempt,
                                               RATE_LIMIT_WINDOW_SECONDS)]
            IN /\ aloc' = [aloc EXCEPT ![p] = l]
               /\ IF rate_limit_denies(allowed)
                  THEN /\ pc' = [pc EXCEPT ![p] = "done"]
                       /\ resp' = [resp EXCEPT ![p] = verify_result(429)]
                  ELSE /\ pc' = [pc EXCEPT ![p] = "a_time"]
                       /\ resp' = resp
       ELSE /\ aloc' = [aloc EXCEPT ![p] = [InitALoc EXCEPT !.data = data]]
            /\ pc' = [pc EXCEPT ![p] = "a_time"]
            /\ resp' = resp
    /\ UNCHANGED <<bucket, wall_clock, rate_limit_enabled, session, wire, tvdb_client, plex_webhook_token, win, appvars>>

\* a skew computed without abs()
time_diff_signed(current_time, timestamp) == current_time - timestamp

\* `time_diff = abs(current_time - data.timestamp)`
time_diff(current_time, timestamp) ==
    IF current_time >= timestamp THEN current_time - timestamp ELSE timestamp - current_time

\* `current_time = int(time.time())` and the check of the challenge's timestamp
a_time(p) ==
    /\ pc[p] = "a_time"
    /\ aloc' = [aloc EXCEPT ![p].trace = Append(@, "timestamp"), ![p].auth_time = wall_clock]
    /\ IF time_diff(wall_clock, aloc[p].data.timestamp) > AUTH_TIME_WINDOW_SECONDS
       THEN /\ pc' = [pc EXCEPT ![p] = "done"]
            /\ resp' = [resp EXCEPT ![p] = verify_result(401)]
       ELSE /\ pc' = [pc EXCEPT ![p] = "a_hash"]
            /\ resp' = resp
    /\ UNCHANGED <<bucket, wall_clock, rate_limit_enabled, session, wire, tvdb_client, plex_webhook_token, win, calls, appvars>>

\* settings.preshared_password
preshared_password == "preshared_password"

\* verify_challenge_hash: compare_digest(provided_hash, expected_hash)
verify_challenge_hash(origin, timestamp, provided_hash) ==
    provided_hash = challenge_hash(preshared_password, origin, timestamp)

\* the hash check of verify_auth (PBKDF2)
a_hash(p) ==
    /\ pc[p] = "a_hash"
    /\ aloc' = [aloc EXCEPT ![p].trace = Append(@, "pbkdf2")]
    /\ IF verify_challenge_hash(aloc[p].data.origin, aloc[p].data.timestamp, aloc[p].data.hash)
       THEN /\ pc' = [pc EXCEPT ![p] = "a_name"]
            /\ resp' = resp
       ELSE IF rate_limit_enabled
       THEN /\ pc' = [pc EXCEPT ![p] = "a_record"]
            /\ resp' = resp
       ELSE /\ pc' = [pc EXCEPT ![p] = "done"]
            /\ resp' = [resp EXCEPT ![p] = verify_result(401)]
    /\ UNCHANGED <<bucket, wall_clock, rate_limit_enabled, session, wire, tvdb_client, plex_webhook_token, win, calls, appvars>>

\* db.record_failed_attempt: the atomic increment
a_record(p) ==
    /\ pc[p] = "a_record"
    /\ LET result == record_failed_update(bucket, wall_clock, RATE_LIMIT_WINDOW_SECONDS)
       IN /\ bucket' = result
          /\ win' = win_record(win, wall_clock, RATE_LIMIT_WINDOW_SECONDS)
          /\ aloc' = [aloc EXCEPT ![p].current_time = wall_clock, ![p].writes = @ + 1]
          /\ IF window_expired(wall_clock, result.first_attempt, RATE_LIMIT_WINDOW_SECONDS)
             THEN /\ pc' = [pc EXCEPT ![p] = "a_reset"]
                  /\ resp' = resp
             ELSE /\ pc' = [pc EXCEPT ![p] = "done"]
                  /\ resp' = [resp EXCEPT ![p] = verify_result(401)]
    /\ UNCHANGED <<wall_clock, rate_limit_enabled, session, wire, tvdb_client, plex_webhook_token, calls, appvars>>

\* db.record_failed_attempt: the reset of an expired window, a separate PutItem
a_reset(p) ==
    /\ pc[p] = "a_reset"
    /\ bucket' = record_failed_reset(aloc[p].current_time, RATE_LIMIT_WINDOW_SECONDS)
    /\ aloc' = [aloc EXCEPT ![p].writes = @ + 1]
    /\ pc' = [pc EXCEPT ![p] = "done"]
    /\ resp' = [resp EXCEPT ![p] = verify_result(401)]
    /\ UNCHANGED <<wall_clock, rate_limit_enabled, session, wire, tvdb_client, plex_webhook_token, win, calls, appvars>>

\* str.strip(): leading and trailing whitespace removed
RECURSIVE lstrip(_)
lstrip(name) == IF name # <<>> /\ Head(name) = " " THEN lstrip(Tail(name)) ELSE name
RECURSIVE rstrip(_)
rstrip(name) == IF name # <<>> /\ name[Len(name)] = " "
                THEN rstrip(SubSeq(name, 1, Len(name) - 1)) ELSE name
strip(name) == rstrip(lstrip(name))

\* `if not name or len(name) > 50` fails
name_valid(name) == name # <<>> /\ ~(Len(name) > 50)

\* a verify_auth that clears the rate limit as soon as the hash is right, before
\* it looks at the name
a_name_clears_first(p) ==
    /\ pc[p] = "a_name"
    /\ bucket' = IF rate_limit_enabled THEN clear_rate_limit(bucket) ELSE bucket
    /\ aloc' = [aloc EXCEPT ![p].writes = IF rate_limit_enabled THEN @ + 1 ELSE @]
    /\ win' = IF rate_limit_enabled THEN [NoWin EXCEPT !.clears = 1] ELSE win
    /\ pc' = [pc EXCEPT ![p] = "done"]
    /\ resp' = [resp EXCEPT ![p] = verify_result(IF name_valid(strip(aloc[p].data.name))
                                                 THEN 200 ELSE 400)]
    /\ UNCHANGED <<wall_clock, rate_limit_enabled, session, wire, tvdb_client,
                   plex_webhook_token, calls, appvars>>

\* `name = data.name.strip()` and its validation
a_name(p) ==
    /\ pc[p] = "a_name"
    /\ LET name == strip(aloc[p].data.name)
       IN IF ~name_valid(name)
          THEN /\ pc' = [pc EXCEPT ![p] = "done"]
               /\ resp' = [resp EXCEPT ![p] = verify_result(400)]
          ELSE IF rate_limit_enabled
          THEN /\ pc' = [pc EXCEPT ![p] = "a_clear"]
               /\ resp' = resp
          ELSE /\ pc' = [pc EXCEPT ![p] = "done"]
               /\ resp' = [resp EXCEPT ![p] = verify_result(200)]
    /\ UNCHANGED <<authvars, calls, appvars>>

\* db.clear_rate_limit(client_ip), then the session token
a_clear(p) ==
    /\ pc[p] = "a_clear"
    /\ bucket' = clear_rate_limit(bucket)
    /\ win' = [NoWin EXCEPT !.clears = 1]
    /\ aloc' = [aloc EXCEPT ![p].writes = @ + 1,
                            ![p].hist_cleared = bucket.failed_attempts]
    /\ pc' = [pc EXCEPT ![p] = "done"]
    /\ resp' = [resp EXCEPT ![p] = verify_result(200)]
    /\ UNCHANGED <<wall_clock, rate_limit_enabled, session, wire, tvdb_client, plex_webhook_token, calls, appvars>>

\* the browser's origin
Origin == "https://stellarr.example"

\* names a client posts: blank, padded with blanks, 50 characters between
\* blanks, and 51 characters
PostedNames ==
    {<<" ">>, <<" ", "a", "l", " ">>,
     <<" ">> \o [i \in 1..50 |-> "x"] \o <<" ">>,
     [i \in 1..51 |-> "x"]}

\* the challenges a client posts at time `now`: stamped now, at the edge of the
\* allowed skew, or one second beyond it on either side; hashed with the right
\* password, with a wrong one, or for another timestamp
AuthChallenges(now) ==
    UNION {{AuthChallenge(Origin, timestamp, hash, name) :
                hash \in {challenge_hash(preshared_password, Origin, timestamp),
                          challenge_hash("guess", Origin, timestamp),
                          challenge_hash(preshared_password, Origin, now + 1)},
                name \in PostedNames} :
           timestamp \in {now, now - AUTH_TIME_WINDOW_SECONDS,
                          now - (AUTH_TIME_WINDOW_SECONDS + 1),
                          now + (AUTH_TIME_WINDOW_SECONDS + 1)}}

\* the attempts of a client that logs in, mistypes the password, leaves the
\* name blank, or sends a stale challenge
LoginAttempts(now) ==
    {AuthChallenge(Origin, now, challenge_hash(preshared_password, Origin, now),
                   <<" ", "a", "l", " ">>),
     AuthChallenge(Origin, now, challenge_hash("guess", Origin, now), <<" ", "a", "l", " ">>),
     AuthChallenge(Origin, now, challenge_hash(preshared_password, Origin, now), <<" ">>),
     AuthChallenge(Origin, now - (AUTH_TIME_WINDOW_SECONDS + 1),
                   challenge_hash(preshared_password, Origin,
                                  now - (AUTH_TIME_WINDOW_SECONDS + 1)),
                   <<" ", "a", "l", " ">>)}

\* time passes
Tick ==
    /\ wall_clock < MaxTicks * TickSeconds
    /\ wall_clock' = wall_clock + TickSeconds
    /\ UNCHANGED <<bucket, aloc, rate_limit_enabled, session, wire, tvdb_client, plex_webhook_token, win, pc, resp, calls, appvars>>

\* DynamoDB removes an item whose ttl has passed
ttl_expire ==
    /\ bucket.exists
    /\ wall_clock > bucket.ttl
    /\ bucket' = NoBucket
    /\ UNCHANGED <<wall_clock, aloc, rate_limit_enabled, session, wire, tvdb_client, plex_webhook_token, win, pc, resp, calls, appvars>>

\* ------------------------------------------------------------ session tokens

\* Session duration: 30 days in seconds
SESSION_DURATION_SECONDS == 30 * 24 * 60 * 60

\* time.time() is a float.  The session clock counts half seconds, so that a
\* token can be created and presented between two whole seconds.
\* creation times: 1000.0 s, 1000.5 s, ... (MaxCreate half seconds on)
MaxCreate == 3
\* a token is presented up to MaxSkew half seconds around its creation and
\* around the end of its 30 days
MaxSkew == 2

\* int(time.time()): truncation to whole seconds
int_time(now2) == now2 \div 2

\* the value of a digit character
DigitValue(c) == (CHOOSE i \in 1..10 : DigitChars[i] = c) - 1

\* int(s) of a digit string
RECURSIVE int(_)
int(s) == IF Len(s) = 1 THEN DigitValue(s[1])
          ELSE 10 * int(SubSeq(s, 1, Len(s) - 1)) + DigitValue(s[Len(s)])

\* int(s) raises ValueError unless s is a non-empty run of digits
is_int(s) == Len(s) > 0 /\ \A i \in 1..Len(s) : \E j \in 1..10 : DigitChars[j] = s[i]

\* name.encode(): UTF-8 of a string of code points below 0x800
RECURSIVE encode(_)
encode(name) ==
    IF name = <<>> THEN <<>>
    ELSE (IF Head(name) < 128 THEN <<Head(name)>>
          ELSE <<192 + (Head(name) \div 64), 128 + (Head(name) % 64)>>) \o encode(Tail(name))

\* bytes.decode('utf-8') succeeds on well-formed one- and two-byte sequences
RECURSIVE decodable(_)
decodable(b) ==
    IF b = <<>> THEN TRUE
    ELSE IF b[1] < 128 THEN decodable(Tail(b))
    ELSE /\ b[1] \in 194..223 /\ Len(b) >= 2 /\ b[2] \in 128..191
         /\ decodable(Tail(Tail(b)))

\* bytes.decode('utf-8')
RECURSIVE decode(_)
decode(b) ==
    IF b = <<>> THEN <<>>
    ELSE IF b[1] < 128 THEN <<b[1]>> \o decode(Tail(b))
    ELSE <<(b[1] - 192) * 64 + (b[2] - 128)>> \o decode(Tail(Tail(b)))

\* base64.urlsafe_b64encode(b).decode().rstrip("="): the characters of the
\* encoding, as 6-bit values, without the padding
RECURSIVE urlsafe_b64encode(_)
urlsafe_b64encode(b) ==
    IF Len(b) = 0 THEN <<>>
    ELSE IF Len(b) = 1 THEN <<b[1] \div 4, (b[1] % 4) * 16>>
    ELSE IF Len(b) = 2
    THEN <<b[1] \div 4, (b[1] % 4) * 16 + (b[2] \div 16), (b[2] % 16) * 4>>
    ELSE <<b[1] \div 4, (b[1] % 4) * 16 + (b[2] \div 16),
           (b[2] % 16) * 4 + (b[3] \div 64), b[3] % 64>>
         \o urlsafe_b64encode(SubSeq(b, 4, Len(b)))

\* `padding = 4 - (len(name_b64) % 4)`, restored unless it is 4
padding(name_b64) == IF Len(name_b64) % 4 = 0 THEN 0 ELSE 4 - (Len(name_b64) % 4)

\* base64.urlsafe_b64decode raises on one data character followed by "==="
b64decodable(name_b64) == padding(name_b64) < 3

\* base64.urlsafe_b64decode of the re-padded text
RECURSIVE urlsafe_b64decode(_)
urlsafe_b64decode(s) ==
    IF Len(s) < 2 THEN <<>>
    ELSE IF Len(s) = 2 THEN <<s[1] * 4 + (s[2] \div 16)>>
    ELSE IF Len(s) = 3
    THEN <<s[1] * 4 + (s[2] \div 16), (s[2] % 16) * 16 + (s[3] \div 4)>>
    ELSE <<s[1] * 4 + (s[2] \div 16), (s[2] % 16) * 16 + (s[3] \div 4),
           (s[3] % 4) * 64 + s[4]>>
         \o urlsafe_b64decode(SubSeq(s, 5, Len(s)))

\* settings.app_secret_key, and a key the server does not use
app_secret_key == "app_secret_key"

\* hmac.new(key, payload, sha256).digest(), base64-encoded: a value that
\* depends on the key and on every character of the payload
hmac_b64(key, payload) == [key |-> key, payload |-> payload]

\* create_session_token(name) at time now2 (half seconds): the parts of
\* "timestamp.name_b64.signature"
create_session_token(name, now2) ==
    LET timestamp == str(int_time(now2))
        name_b64 == IF name # <<>> THEN urlsafe_b64encode(encode(name)) ELSE <<>>
        payload == <<timestamp, name_b64>>
    IN <<timestamp, name_b64, hmac_b64(app_secret_key, payload)>>

\* verify_session_token(authorization) at time now2: TRUE when it returns True,
\* FALSE when it raises 401
verify_session_token(authorization, now2) ==
    LET token_parts == authorization.token
    IN /\ authorization.scheme = "bearer"
       /\ Len(token_parts) \in {2, 3}
       /\ LET timestamp_str == token_parts[1]
              sig_b64 == token_parts[Len(token_parts)]
              payload == SubSeq(token_parts, 1, Len(token_parts) - 1)
          IN /\ is_int(timestamp_str)
             /\ ~(now2 - 2 * int(timestamp_str) > 2 * SESSION_DURATION_SECONDS)
             /\ sig_b64 = hmac_b64(app_secret_key, payload)

\* Python's None, and a str, as the result of get_user_from_token
NoUser == [none |-> TRUE, name |-> <<>>]
UserName(name) == [none |-> FALSE, name |-> name]

\* get_user_from_token(authorization)
get_user_from_token(authorization) ==
    LET token_parts == authorization.token
    IN IF authorization.scheme # "bearer" \/ Len(token_parts) # 3 THEN NoUser
       ELSE LET name_b64 == token_parts[2]
            IN IF name_b64 = <<>> THEN NoUser
               ELSE IF ~b64decodable(name_b64) THEN NoUser
               ELSE IF ~decodable(urlsafe_b64decode(name_b64)) THEN NoUser
               ELSE UserName(decode(urlsafe_b64decode(name_b64)))

\* the names a token is created for: none, and names whose UTF-8 is 1 to 4 bytes
\* long ("a", "é", "ali", "alié")
TokenNames == {<<>>, <<97>>, <<233>>, <<97, 108, 105>>, <<97, 108, 105, 233>>}

\* save_push_subscription / delete_push_subscription on the PushSubscription of
\* `name`; a name without a stored row gets one only from a save
put_subscription(subs, name, stored) ==
    [n \in DOMAIN subs \cup {name} |-> IF n = name THEN stored ELSE subs[n]]

\* creation times, in half seconds
CreateTimes == {2000 + i : i \in 0..MaxCreate}

\* how long after its creation a token is presented, in half seconds
Deltas == {d \in -MaxSkew..MaxSkew : TRUE} \cup
          {2 * SESSION_DURATION_SECONDS + d : d \in -MaxSkew..MaxSkew}

\* ------------------------------------------------ DynamoDB type marshalling

\* the longest list put into an item
MaxList == 2

\* Python values, each with its type: None, bool, str, int, float, list, dict.
\* A float is sign, units digit(s), one fractional digit and a decimal
\* exponent; repr() writes an exponent of 16 or more in exponent notation.
PyNone == [t |-> "NoneType", v |-> 0]
PyBool(b) == [t |-> "bool", v |-> b]
PyStr(s) == [t |-> "str", v |-> s]
PyInt(n) == [t |-> "int", v |-> n]
PyFloat(neg, units, tenths, exp) ==
    [t |-> "float", v |-> [neg |-> neg, units |-> units, tenths |-> tenths, exp |-> exp]]
PyList(l) == [t |-> "list", v |-> l]
PyDict(d) == [t |-> "dict", v |-> d]

\* str(value) of an int or a float: "-3", "42", "1.0", "-2.5", "1e+16"
str_number(value) ==
    IF value.t = "int"
    THEN (IF value.v < 0 THEN <<"-">> \o str(-value.v) ELSE str(value.v))
    ELSE (IF value.v.neg THEN <<"-">> ELSE <<>>) \o str(value.v.units) \o
         (IF value.v.exp = 0 THEN <<".">> \o str(value.v.tenths)
          ELSE (IF value.v.tenths = 0 THEN <<>> ELSE <<".">> \o str(value.v.tenths)) \o
               <<"e", "+">> \o str(value.v.exp))

\* the first position of character c in s, 0 if there is none
IndexOf(s, c) ==
    IF \E i \in 1..Len(s) : s[i] = c
    THEN CHOOSE i \in 1..Len(s) : s[i] = c /\ \A j \in 1..(i - 1) : s[j] # c
    ELSE 0

\* int(n) succeeds on an optional sign followed by digits
int_parses(n) == Len(n) > 0 /\ is_int(IF n[1] \in {"-", "+"} THEN Tail(n) ELSE n)

\* int(n) of a signed digit string
signed_int(n) ==
    IF n[1] = "-" THEN 0 - int(Tail(n))
    ELSE IF n[1] = "+" THEN int(Tail(n))
    ELSE int(n)

\* float(n): sign, mantissa with an optional fraction, optional exponent
float(n) ==
    LET body == IF n[1] \in {"-", "+"} THEN Tail(n) ELSE n
        e    == IndexOf(body, "e")
        mant == IF e = 0 THEN body ELSE SubSeq(body, 1, e - 1)
        dot  == IndexOf(mant, ".")
    IN  PyFloat(n[1] = "-",
                int(IF dot = 0 THEN mant ELSE SubSeq(mant, 1, dot - 1)),
                IF dot = 0 THEN 0 ELSE int(SubSeq(mant, dot + 1, Len(mant))),
                IF e = 0 THEN 0 ELSE signed_int(SubSeq(body, e + 1, Len(body))))

\* a parse that turns every whole number into an int
number_from_text_integral(n) ==
    IF int_parses(n) THEN PyInt(signed_int(n))
    ELSE IF float(n).v.tenths = 0 /\ float(n).v.exp = 0
         THEN PyInt(IF float(n).v.neg THEN 0 - float(n).v.units ELSE float(n).v.units)
         ELSE float(n)

\* _from_dynamodb's 'N' branch: try int(n), on ValueError float(n)
number_from_text(n) == IF int_parses(n) THEN PyInt(signed_int(n)) ELSE float(n)

\* _to_dynamodb(value): the DynamoDB typed form of a Python value
RECURSIVE to_dynamodb(_)
to_dynamodb(value) ==
    IF value.t = "NoneType" THEN [tag |-> "NULL", val |-> TRUE]
    ELSE IF value.t = "bool" THEN [tag |-> "BOOL", val |-> value.v]
    ELSE IF value.t = "str" THEN [tag |-> "S", val |-> value.v]
    ELSE IF value.t \in {"int", "float"} THEN [tag |-> "N", val |-> str_number(value)]
    ELSE IF value.t = "list"
         THEN [tag |-> "L", val |-> [i \in DOMAIN value.v |-> to_dynamodb(value.v[i])]]
    ELSE [tag |-> "M", val |-> [k \in DOMAIN value.v |-> to_dynamodb(value.v[k])]]

\* _from_dynamodb(item): the Python value of a DynamoDB typed form
RECURSIVE from_dynamodb(_)
from_dynamodb(item) ==
    IF item.tag = "S" THEN PyStr(item.val)
    ELSE IF item.tag = "N" THEN number_from_text(item.val)
    ELSE IF item.tag = "BOOL" THEN PyBool(item.val)
    ELSE IF item.tag = "NULL" THEN PyNone
    ELSE IF item.tag = "L"
         THEN PyList([i \in DOMAIN item.val |-> from_dynamodb(item.val[i])])
    ELSE IF item.tag = "M"
         THEN PyDict([k \in DOMAIN item.val |-> from_dynamodb(item.val[k])])
    ELSE PyNone

\* _marshal_item(item): every attribute whose value is not None, typed
marshal_item(item) ==
    [k \in {a \in DOMAIN item : item[a].t # "NoneType"} |-> to_dynamodb(item[k])]

\* _unmarshal_item(item)
unmarshal_item(item) == [k \in DOMAIN item |-> from_dynamodb(item[k])]

\* the values an attribute is given
Scalars == {PyNone, PyBool(TRUE), PyBool(FALSE), PyStr(""), PyStr("ok"),
            PyInt(0 - 3), PyInt(0), PyInt(42),
            PyFloat(FALSE, 1, 0, 0), PyFloat(TRUE, 2, 5, 0), PyFloat(FALSE, 1, 0, 16)}
Lists == {PyList(l) : l \in UNION {[1..n -> Scalars] : n \in 0..MaxList}}
Dicts == {PyDict(d) : d \in UNION {[D -> Scalars] : D \in SUBSET {"k"}}}
Nested == {PyList(<<d>>) : d \in Dicts} \cup
          {PyDict([k \in {"k"} |-> PyList(<<s>>)]) : s \in Scalars}
Values == Scalars \cup Lists \cup Dicts \cup Nested

\* the items put: the key attribute, and up to two more attributes
Items == UNION {{[k \in D \cup {"id"} |->
                    IF k = "id" THEN PyStr("x") ELSE IF k = "a" THEN x ELSE y] :
                 x \in Values, y \in Scalars} : D \in SUBSET {"a", "b"}}

NoWire == [step |-> "none", item |-> <<>>, marshalled |-> <<>>, back |-> <<>>]

\* everything but the item on the wire
wireframe == <<requests, library, guid_cache, push_subs, clock, pc, loc, resp, notifier_calls,
               push_sent, marks, calls, feed, replay, bucket, wall_clock, aloc,
               rate_limit_enabled, win, session, tvdb_client, plex_webhook_token>>

\* put_item(item): the marshalled item goes into the PutItem payload
put_item(item) ==
    /\ wire.step = "none"
    /\ wire' = [wire EXCEPT !.step = "stored", !.item = item,
                            !.marshalled = marshal_item(item)]
    /\ UNCHANGED wireframe

\* get_item(key): the stored item comes back in the response and is
\* unmarshalled; an empty or absent Item gives None
get_item ==
    /\ wire.step = "stored"
    /\ wire' = [wire EXCEPT !.step = "read",
                            !.back = IF DOMAIN wire.marshalled = {} THEN <<>>
                                     ELSE unmarshal_item(wire.marshalled)]
    /\ UNCHANGED wireframe

NoSession == [step |-> "none", name |-> <<>>, created |-> 0, token |-> <<>>,
              scheme |-> "bearer", forged |-> FALSE, presented |-> 0,
              accepted |-> FALSE, user |-> NoUser]

\* everything but the session
tokenframe == <<appvars, pc, resp, calls, bucket, wall_clock, aloc, rate_limit_enabled, win, wire, tvdb_client, plex_webhook_token>>

\* the server issues a token for `name`
t_create(name, now2) ==
    /\ session.step = "none"
    /\ session' = [NoSession EXCEPT !.step = "issued", !.name = name, !.created = now2,
                                    !.token = create_session_token(name, now2)]
    /\ UNCHANGED tokenframe

\* the client alters the token before presenting it: a later timestamp under the
\* old signature, the name part dropped or cut, another user's name under the old
\* signature, or a signature made with another key
t_forge(how) ==
    /\ session.step = "issued"
    /\ ~session.forged
    /\ LET t == session.token
       IN session' = [session EXCEPT
             !.forged = TRUE,
             !.token = CASE how = "timestamp" -> <<str(int(t[1]) + 1), t[2], t[3]>>
                         [] how = "legacy" -> <<t[1], t[3]>>
                         [] how = "name" -> <<t[1], IF t[2] = <<>> THEN <<0>> ELSE <<t[2][1]>>, t[3]>>
                         [] how = "victim" ->
                              <<t[1], urlsafe_b64encode(encode(IF session.name = <<97>>
                                                               THEN <<233>> ELSE <<97>>)), t[3]>>
                         [] OTHER -> <<t[1], t[2], hmac_b64("other", <<t[1], t[2]>>)>>]
    /\ UNCHANGED tokenframe

\* the client presents the token `delta` half seconds after its creation:
\* `Authorization: <scheme> <token>`
t_verify(scheme, delta) ==
    /\ session.step = "issued"
    /\ LET authorization == [scheme |-> scheme, token |-> session.token]
           now2 == session.created + delta
       IN session' = [session EXCEPT
             !.step = "verified", !.scheme = scheme, !.presented = now2,
             !.accepted = verify_session_token(authorization, now2),
             !.user = get_user_from_token(authorization)]
    /\ UNCHANGED tokenframe

\* everything but the session and the subscriptions
subscribeframe == <<requests, library, guid_cache, clock, loc, notifier_calls, push_sent, marks,
                    feed, replay, pc, resp, calls, bucket, wall_clock, aloc, rate_limit_enabled,
                    win, wire, tvdb_client, plex_webhook_token>>

\* POST /api/push/subscribe with `Authorization: <scheme> <token>`, `delta` half
\* seconds after the token's creation: user_name = Depends(get_user_from_token),
\* 401 without a name, else db.save_push_subscription(user_name, ...)
subscribe_push_request(scheme, delta) ==
    /\ session.step = "issued"
    /\ LET authorization == [scheme |-> scheme, token |-> session.token]
           user_name == get_user_from_token(authorization)
       IN /\ session' = [session EXCEPT !.step = "subscribe", !.scheme = scheme,
                                         !.presented = session.created + delta,
                                         !.user = user_name]
          /\ push_subs' = IF user_name.none THEN push_subs
                          ELSE put_subscription(push_subs, user_name.name, TRUE)
    /\ UNCHANGED subscribeframe

\* DELETE /api/push/subscribe: 401 without a name, else
\* db.delete_push_subscription(user_name)
unsubscribe_push(scheme, delta) ==
    /\ session.step = "issued"
    /\ LET authorization == [scheme |-> scheme, token |-> session.token]
           user_name == get_user_from_token(authorization)
       IN /\ session' = [session EXCEPT !.step = "unsubscribe", !.scheme = scheme,
                                         !.presented = session.created + delta,
                                         !.user = user_name]
          /\ push_subs' = IF user_name.none THEN push_subs
                          ELSE put_subscription(push_subs, user_name.name, FALSE)
    /\ UNCHANGED subscribeframe

\* ------------------------------------------------------- repeated delivery

\* replay.data is the payload Plex delivers again and again; resps and libs are
\* the response and the library table each completed delivery left (history).
\* For the comparison of two runs, init is the Request table both runs start
\* from, phase tells the run with the empty GUID cache from the run with a
\* populated one, and first is the set of requests the first run fulfilled.
NoReplay == [data |-> Payload("media.play", PlexServerName, "movie", CatalogTitle,
                              NoStr, 1, NoId),
             resps |-> <<>>, libs |-> <<>>,
             init |-> [k \in Keys |-> NoItem], phase |-> "empty", first |-> {}]

\* Plex posts the payload once more, after the previous delivery was answered
redeliver ==
    /\ Len(replay.resps) = calls
    /\ plex_webhook(1, plex_webhook_token, replay.data)

\* the handler answers a delivery
delivered ==
    /\ pc[1] = "done"
    /\ Len(replay.resps) < calls
    /\ replay' = [replay EXCEPT !.resps = Append(@, resp[1]), !.libs = Append(@, library)]
    /\ pc' = [pc EXCEPT ![1] = "idle"]
    /\ resp' = [resp EXCEPT ![1] = NoResp]
    /\ UNCHANGED <<requests, library, guid_cache, push_subs, clock, loc, notifier_calls,
                   push_sent, marks, calls, feed, authvars>>

\* the requests a run has fulfilled
Fulfilled(tbl) == {k \in Keys : tbl[k].exists /\ tbl[k].added_at # NoTime}

\* the entries set_plex_guid_cache can have written for a show's guid: the ids
\* of a matched request (with or without its tvdb id), or no tmdb id and the
\* tvdb id a reverse lookup resolved
CachedEntries ==
    {[cached |-> TRUE, tmdb_id |-> t, tvdb_id |-> ShowTvdb(t)] : t \in TmdbIds}
    \cup {[cached |-> TRUE, tmdb_id |-> t, tvdb_id |-> NoId] : t \in TmdbIds}
    \cup {[cached |-> TRUE, tmdb_id |-> NoId, tvdb_id |-> v] : v \in TvdbIds}

\* the same deliveries are made once more, to the same initial requests and a
\* GUID cache that earlier webhooks have populated
rerun(entry) ==
    /\ replay.phase = "empty"
    /\ pc[1] = "idle"
    /\ calls = MaxCalls
    /\ Len(replay.resps) = calls
    /\ replay' = [replay EXCEPT !.phase = "populated", !.first = Fulfilled(requests),
                                !.resps = <<>>, !.libs = <<>>]
    /\ requests' = replay.init
    /\ library' = [k \in Keys |-> NoRow]
    /\ guid_cache' = [g \in AllGuids |-> IF g \in PlexGuids THEN entry ELSE NoEntry]
    /\ clock' = 1
    /\ marks' = [k \in Keys |-> 0]
    /\ notifier_calls' = [mk \in NKeys |-> 0]
    /\ push_sent' = [mk \in NKeys |-> 0]
    /\ calls' = 0
    /\ UNCHANGED <<push_subs, pc, loc, resp, feed, authvars>>

\* ------------------------------------------------------- the TVDB client

MaxLookups == 3
MaxDays == 30

\* "refresh after 29 days to be safe"
TOKEN_LIFETIME_SECONDS == 29 * 24 * 60 * 60

\* the module's globals (_api_key, _token, _token_expires), and as history the
\* last call of get_series_id_from_episode: the HTTP requests it sent, what
\* _get_token gave it, its result, and the clock and the cache it started from
NoLookup == [called |-> FALSE, http |-> <<>>, token |-> NoStr, result |-> NoId,
             hist_now |-> 0, hist_token |-> NoStr, hist_expires |-> 0]

NoTvdb == [api_key |-> NoStr, token |-> NoStr, token_expires |-> 0, last |-> NoLookup]

\* what TVDB answers to POST /login: a token, a body without one, a refusal, or
\* nothing at all (status 0)
LoginAnswers ==
    {[status |-> 200, token |-> t] : t \in {"tokenA", "tokenB", NoStr}}
    \cup {[status |-> st, token |-> NoStr] : st \in {401, 0}}

\* what TVDB answers to GET /episodes/<id>
EpisodeAnswers ==
    {[status |-> 200, seriesId |-> t] : t \in TvdbIds \cup {NoId}}
    \cup {[status |-> st, seriesId |-> NoId] : st \in {404, 500, 0}}

\* _login(): nothing without an API key; an exception of the request leaves the
\* globals alone; a 200 stores data.get("data", {}).get("token") and the expiry
_login(c, now, answer) ==
    IF c.api_key = NoStr THEN [c |-> c, token |-> NoStr, http |-> <<>>]
    ELSE IF answer.status # 200 THEN [c |-> c, token |-> NoStr, http |-> <<"POST /login">>]
    ELSE [c |-> [c EXCEPT !.token = answer.token,
                          !.token_expires = now + TOKEN_LIFETIME_SECONDS],
          token |-> answer.token, http |-> <<"POST /login">>]

\* _get_token(): `if _token and time.time() < _token_expires: return _token`
_get_token(c, now, answer) ==
    IF c.token # NoStr /\ now < c.token_expires
    THEN [c |-> c, token |-> c.token, http |-> <<>>]
    ELSE _login(c, now, answer)

\* get_series_id_from_episode(episode_tvdb_id)
tvdb_get_series_id_from_episode(episode_tvdb_id, login_answer, episode_answer) ==
    /\ calls < MaxLookups
    /\ calls' = calls + 1
    /\ LET t == _get_token(tvdb_client, wall_clock, login_answer)
       IN tvdb_client' = [t.c EXCEPT !.last =
                      [called |-> TRUE,
                       http |-> IF t.token = NoStr THEN t.http
                                ELSE Append(t.http, "GET /episodes"),
                       token |-> t.token,
                       result |-> IF t.token # NoStr /\ episode_answer.status = 200
                                  THEN episode_answer.seriesId ELSE NoId,
                       hist_now |-> wall_clock, hist_token |-> tvdb_client.token,
                       hist_expires |-> tvdb_client.token_expires]]
    /\ UNCHANGED <<appvars, pc, resp, bucket, wall_clock, aloc, rate_limit_enabled, win,
                   session, wire, plex_webhook_token>>

\* days go by between two lookups (a fortnight, or a day more)
pass_days(d) ==
    /\ wall_clock + d * 86400 <= MaxDays * 86400
    /\ wall_clock' = wall_clock + d * 86400
    /\ UNCHANGED <<appvars, pc, resp, calls, bucket, aloc, rate_limit_enabled, win,
                   session, wire, tvdb_client, plex_webhook_token>>

\* ------------------------------------------------------------ the system

\* the store after some users have filed requests: create_request has run for
\* any subset of the catalogue, so every item is pending and has no plex_guid
CreatedItems(k) ==
    {NoItem} \cup
    {add_request_item(CatalogTitle, tvdb_id, u) :
        tvdb_id \in (IF k[1] = "tv" THEN {NoId, ShowTvdb(k[2])} ELSE {NoId}),
        u \in Users}

\* every table create_request can have built
CreatedTables ==
    {t \in [Keys -> UNION {CreatedItems(k) : k \in Keys}] :
        \A k \in Keys : t[k] \in CreatedItems(k)}

\* the item update_plex_guid leaves when its request was deleted after the match
GhostItem == [NoItem EXCEPT !.exists = TRUE, !.plex_guid = "plex://show/abc"]

\* the stores the system starts from: empty; the whole catalogue requested, with
\* or without the shows' tvdb ids; and one with a re-created item
InitTables ==
    {[k \in Keys |-> NoItem],
     [k \in Keys |-> add_request_item(CatalogTitle,
                          IF k[1] = "tv" THEN ShowTvdb(k[2]) ELSE NoId, "alice")],
     [k \in Keys |-> add_request_item(CatalogTitle, NoId, "alice")],
     [k \in Keys |-> IF k = <<"movie", 1>> THEN GhostItem ELSE NoItem]}

\* the application's tables and handlers before the first call
InitApp ==
    /\ library = [k \in Keys |-> NoRow]
    /\ guid_cache = [g \in AllGuids |-> NoEntry]
    /\ clock = 1
    /\ pc = [p \in Procs |-> "idle"]
    /\ loc = [p \in Procs |-> InitLoc]
    /\ resp = [p \in Procs |-> NoResp]
    /\ notifier_calls = [mk \in NKeys |-> 0]
    /\ push_sent = [mk \in NKeys |-> 0]
    /\ marks = [k \in Keys |-> 0]
    /\ calls = 0
    /\ feed = NoFeed

Init ==
    /\ requests \in InitTables
    /\ push_subs \in [Users -> BOOLEAN]
    /\ InitApp
    /\ replay = NoReplay
    /\ InitLimiter
    /\ session = NoSession
    /\ wire = NoWire
    /\ tvdb_client = NoTvdb
    /\ plex_webhook_token = "secret"
    /\ rate_limit_enabled = TRUE

\* ------------------------------------------------ the table, scanned whole

\* a partition key: a family prefix and what follows it; a Request's partition
\* is its media_type, with no prefix
Partition(prefix, rest) == [prefix |-> prefix, rest |-> rest]

\* `item.get('media_type', '').startswith(prefix)`
startswith(partition, prefix) == partition.prefix = prefix

\* client.scan(): every item of the table, of every family; the hash key
\* attribute is named media_type and the range key tmdb_id whatever the family
scan(tbl, lib, cache, subs, bkt) ==
    {[media_type |-> Partition("", k[1]), tmdb_id |-> k[2], sort |-> NoStr,
      added_at |-> tbl[k].added_at] : k \in {x \in Keys : tbl[x].exists}}
    \cup {[media_type |-> Partition("LIB#", k[1]), tmdb_id |-> k[2], sort |-> NoStr,
           added_at |-> NoTime] : k \in {x \in Keys : lib[x].present}}
    \cup {[media_type |-> Partition("GUIDCACHE", NoStr), tmdb_id |-> NoId, sort |-> g,
           added_at |-> NoTime] : g \in {x \in DOMAIN cache : cache[x].cached}}
    \cup {[media_type |-> Partition("PUSH", NoStr), tmdb_id |-> NoId, sort |-> u,
           added_at |-> NoTime] : u \in {x \in DOMAIN subs : subs[x]}}
    \cup (IF bkt.exists
          THEN {[media_type |-> Partition("RATELIMIT#", "ip"), tmdb_id |-> 0,
                 sort |-> NoStr, added_at |-> NoTime]}
          ELSE {})

\* get_all_requests() without a media_type: the scan, less the rate-limit items
get_all_requests_scan(all_items) ==
    {item \in all_items : ~startswith(item.media_type, "RATELIMIT#")}

\* GET /api/requests without a media_type
list_requests ==
    /\ calls < MaxCalls
    /\ calls' = calls + 1
    /\ feed' = [kind |-> "list_requests", items |-> <<>>, hist_rows |-> <<>>,
                serial |-> calls',
                requests |-> get_all_requests_scan(
                                 scan(requests, library, guid_cache, push_subs, bucket))]
    /\ UNCHANGED <<replay, authvars, requests, library, guid_cache, push_subs, clock, pc, loc, resp,
                   notifier_calls, push_sent, marks>>

\* GET /api/library-status: `[r for r in all_requests if not r.get('added_at')]`
get_library_status ==
    /\ calls < MaxCalls
    /\ calls' = calls + 1
    /\ LET all_requests == get_all_requests_scan(
                               scan(requests, library, guid_cache, push_subs, bucket))
       IN feed' = [kind |-> "get_library_status", items |-> <<>>, hist_rows |-> <<>>,
                   serial |-> calls',
                   requests |-> {r \in all_requests : r.added_at = NoTime}]
    /\ UNCHANGED <<replay, authvars, requests, library, guid_cache, push_subs, clock, pc, loc, resp,
                   notifier_calls, push_sent, marks>>

WebhookStep(p) ==
    \/ w_lib(p)
    \/ s1_mark(p) \/ s1_guid(p) \/ s1_cache(p)
    \/ s2_find(p) \/ s2_mark(p) \/ s2_guid(p) \/ s2_cache(p)
    \/ s3_find(p) \/ s3_mark(p) \/ s3_cache(p)
    \/ s4_lookup(p) \/ s4_find(p) \/ s4_mark(p) \/ s4_guid(p) \/ s4_cache(p)
    \/ s4_cache2(p)
    \/ s5_find(p) \/ s5_mark(p) \/ s5_lib(p) \/ s5_guid(p) \/ s5_cache(p)
    \/ n_get(p) \/ n_send(p) \/ n_del(p)

Next ==
    \/ \E p \in Procs : \E data \in WebhookPayloads : plex_webhook(p, plex_webhook_token, data)
    \/ \E p \in Procs : WebhookStep(p)
    \/ \E p \in Procs : \E mt \in MediaTypes \cup {"music"} : \E clear \in BOOLEAN :
          \E data \in SyncBodies : sync_library_endpoint(p, plex_webhook_token, mt, clear, data)
    \/ \E p \in Procs : sync_mark(p)
    \/ \E p \in Procs : Return(p)
    \/ \E p \in Procs : \E k \in Keys : \E u \in Users \cup {NoStr} :
          create_request(p, k[1], k[2], u)
    \/ \E p \in Procs : \E k \in Keys : create_request_sqlite(p, k[1], k[2])
    \/ \E p \in Procs : \E k \in Keys : delete_request(p, k[1], k[2])
    \/ \E u \in Users : subscribe_push(u)
    \/ list_radarr
    \/ list_sonarr
    \/ generate_radarr_json
    \/ generate_sonarr_json
    \/ list_requests
    \/ get_library_status

Spec == Init /\ [][Next]_vars

\* the login service on its own: two workers, one client address
InitAuth ==
    /\ requests = [k \in Keys |-> NoItem]
    /\ push_subs = [u \in Users |-> FALSE]
    /\ InitApp
    /\ replay = NoReplay
    /\ InitLimiter
    /\ session = NoSession
    /\ wire = NoWire
    /\ tvdb_client = NoTvdb
    /\ plex_webhook_token = "secret"
    /\ rate_limit_enabled \in BOOLEAN

NextAuth ==
    \/ \E p \in Procs : \E data \in LoginAttempts(wall_clock) : verify_auth(p, data)
    \/ \E p \in Procs : a_time(p)
    \/ \E p \in Procs : a_hash(p)
    \/ \E p \in Procs : a_record(p)
    \/ \E p \in Procs : a_reset(p)
    \/ \E p \in Procs : a_name(p)
    \/ \E p \in Procs : a_clear(p)
    \/ \E p \in Procs : Return(p)
    \/ Tick
    \/ ttl_expire

SpecAuth == InitAuth /\ [][NextAuth]_vars

\* one worker answering one client's challenges, of every kind, one at a time
NextVerify ==
    \/ \E data \in AuthChallenges(wall_clock) : verify_auth(1, data)
    \/ a_time(1) \/ a_hash(1) \/ a_record(1) \/ a_reset(1) \/ a_name(1) \/ a_clear(1)
    \/ Return(1)
    \/ Tick
    \/ ttl_expire

SpecVerify == InitAuth /\ [][NextVerify]_vars

\* one webhook delivered repeatedly to a single worker, nothing else going on
ReplayTables == CreatedTables \cup InitTables

InitReplay ==
    /\ requests \in ReplayTables
    /\ push_subs \in [Users -> BOOLEAN]
    /\ InitApp
    /\ replay \in {[NoReplay EXCEPT !.data = d] : d \in AllPayloads \cup IgnoredPayloads}
    /\ InitLimiter
    /\ session = NoSession
    /\ wire = NoWire
    /\ tvdb_client = NoTvdb
    /\ plex_webhook_token = "secret"
    /\ rate_limit_enabled = TRUE

NextReplay ==
    \/ redeliver
    \/ WebhookStep(1)
    \/ delivered

SpecReplay == InitReplay /\ [][NextReplay]_vars

\* two runs of the same deliveries of an episode or a season, the first with an
\* empty GUID cache and the second with a populated one, while TheTVDB answers
\* every reverse lookup
InitCache ==
    /\ requests \in ReplayTables
    /\ push_subs \in [Users -> BOOLEAN]
    /\ InitApp
    /\ replay \in {[NoReplay EXCEPT !.data = d, !.init = requests] :
                      d \in {x \in AllPayloads : x.Metadata.type \in {"season", "episode"}}}
    /\ InitLimiter
    /\ session = NoSession
    /\ wire = NoWire
    /\ tvdb_client = NoTvdb
    /\ plex_webhook_token = "secret"
    /\ rate_limit_enabled = TRUE

NextCache ==
    \/ redeliver
    \/ WebhookStep(1) /\ (pc[1] = "s4_lookup" => pc'[1] = "s4_find")
    \/ delivered
    \/ \E entry \in CachedEntries : rerun(entry)

SpecCache == InitCache /\ [][NextCache]_vars

\* the TVDB client on its own: lookups, days apart, with or without an API key
InitTvdb ==
    /\ requests = [k \in Keys |-> NoItem]
    /\ push_subs = [u \in Users |-> FALSE]
    /\ InitApp
    /\ replay = NoReplay
    /\ InitLimiter
    /\ session = NoSession
    /\ wire = NoWire
    /\ tvdb_client \in {[NoTvdb EXCEPT !.api_key = k] : k \in {NoStr, "apikey"}}
    /\ plex_webhook_token = "secret"
    /\ rate_limit_enabled = TRUE

NextTvdb ==
    \/ \E e \in TvdbIds : \E la \in LoginAnswers : \E ea \in EpisodeAnswers :
          tvdb_get_series_id_from_episode(e, la, ea)
    \/ \E d \in {14, 15} : pass_days(d)

SpecTvdb == InitTvdb /\ [][NextTvdb]_vars

\* the two endpoints Plex and the sync script call, with every kind of token,
\* in a deployment with or without a configured webhook token
Tokens == {NoStr, "secret", "guess"}

InitHook ==
    /\ requests \in InitTables
    /\ push_subs \in [Users -> BOOLEAN]
    /\ InitApp
    /\ replay = NoReplay
    /\ InitLimiter
    /\ session = NoSession
    /\ wire = NoWire
    /\ tvdb_client = NoTvdb
    /\ plex_webhook_token \in {NoStr, "secret"}
    /\ rate_limit_enabled = TRUE

NextHook ==
    \/ \E p \in Procs : \E token \in Tokens : \E data \in WebhookPayloads :
          plex_webhook(p, token, data)
    \/ \E p \in Procs : WebhookStep(p)
    \/ \E p \in Procs : \E token \in Tokens : \E mt \in MediaTypes : \E clear \in BOOLEAN :
          \E data \in SyncBodies : sync_library_endpoint(p, token, mt, clear, data)
    \/ \E p \in Procs : sync_mark(p)
    \/ \E p \in Procs : Return(p)

SpecHook == InitHook /\ [][NextHook]_vars

\* the session-token functions on their own: one token, created, possibly
\* altered by the client, and presented once; the stored subscriptions are those
\* of the users "a" and "é"
InitToken ==
    /\ requests = [k \in Keys |-> NoItem]
    /\ push_subs \in [{<<97>>, <<233>>} -> BOOLEAN]
    /\ InitApp
    /\ replay = NoReplay
    /\ InitLimiter
    /\ session = NoSession
    /\ wire = NoWire
    /\ tvdb_client = NoTvdb
    /\ plex_webhook_token = "secret"
    /\ rate_limit_enabled = TRUE

NextToken ==
    \/ \E name \in TokenNames : \E now2 \in CreateTimes : t_create(name, now2)
    \/ \E how \in {"timestamp", "legacy", "name", "victim", "key"} : t_forge(how)
    \/ \E scheme \in {"bearer", "basic"} : \E delta \in Deltas : t_verify(scheme, delta)
    \/ \E scheme \in {"bearer", "basic"} : \E delta \in Deltas :
          subscribe_push_request(scheme, delta)
    \/ \E scheme \in {"bearer", "basic"} : \E delta \in Deltas : unsubscribe_push(scheme, delta)

SpecToken == InitToken /\ [][NextToken]_vars

\* the DynamoDB client on its own: one item put and read back
InitMarshal ==
    /\ requests = [k \in Keys |-> NoItem]
    /\ push_subs = [n \in {} |-> FALSE]
    /\ InitApp
    /\ replay = NoReplay
    /\ InitLimiter
    /\ session = NoSession
    /\ wire = NoWire
    /\ tvdb_client = NoTvdb
    /\ plex_webhook_token = "secret"
    /\ rate_limit_enabled = TRUE

NextMarshal ==
    \/ \E item \in Items : put_item(item)
    \/ get_item

SpecMarshal == InitMarshal /\ [][NextMarshal]_vars


\* =================================================================== claims

\* C1: once a request's added_at is set, no step of any handler (webhook, bulk
\* sync, repeated create, plex_guid update) clears or overwrites it; the only
\* way the record loses it is that the record is deleted.
C1_AddedAtWrittenOnce ==
    [][\A k \in Keys :
          requests[k].added_at # NoTime =>
              \/ requests'[k].added_at = requests[k].added_at
              \/ requests'[k] = NoItem]_vars

\* C1 witness: a webhook that targeted movie 1 by tmdb id found it already
\* fulfilled (its mark_as_added ran and changed nothing)
C1_Witness ==
    /\ requests[<<"movie", 1>>].added_at # NoTime
    /\ \E p \in Procs :
          /\ pc[p] = "s3_find"
          /\ loc[p].media.media_type = "movie"
          /\ loc[p].show_tmdb_id = 1
          /\ ~Matched(loc[p])

\* C2: for one pending request at most one mark_as_added call succeeds, however
\* the handlers interleave, and the notifier is invoked, and a push delivered,
\* at most once for that fulfilment.
C2_AtMostOneFulfilment ==
    /\ \A k \in Keys : marks[k] <= 1
    /\ \A mk \in NKeys : notifier_calls[mk] <= 1 /\ push_sent[mk] <= 1

\* C2 witness: two webhook handlers are in flight for the same movie; the first
\* has just fulfilled the request, the second's mark_as_added has failed
C2_Witness ==
    /\ pc[1] = "s1_guid" /\ Matched(loc[1])
    /\ pc[2] = "s3_find" /\ ~Matched(loc[2])
    /\ loc[1].media = loc[2].media
    /\ loc[2].show_tmdb_id = loc[1].show_tmdb_id
    /\ marks[<<loc[1].media.media_type, loc[1].show_tmdb_id>>] = 1

\* C3: when a bulk sync returns, the notifier has been invoked exactly once for
\* every request that sync moved from pending to fulfilled.
C3_SyncNotifiesEachFulfilment ==
    \A p \in Procs :
        (resp[p].kind = "sync" /\ resp[p].code = 200) =>
            \A mk \in resp[p].hist_newly : notifier_calls[mk] = 1

\* C6: no list response (Radarr or Sonarr, of either application) holds an
\* entry built from a request whose added_at is set.
C6_ListsHoldOnlyPending ==
    \A i \in 1..Len(feed.hist_rows) : feed.hist_rows[i].item.added_at = NoTime

\* the number a string of decimal digits denotes
RECURSIVE DecimalValue(_)
DecimalValue(digits) ==
    IF digits = <<>> THEN 0
    ELSE 10 * DecimalValue(SubSeq(digits, 1, Len(digits) - 1))
         + (CHOOSE d \in 0..9 : DigitChars[d + 1] = digits[Len(digits)])

\* `items` is exactly one {tvdbId: "<tvdb_id>"} per pending tv request of `tbl`
\* with a tvdb_id
SonarrExact(tbl, items) ==
    LET want == {k \in Keys : /\ k[1] = "tv" /\ tbl[k].exists
                               /\ tbl[k].added_at = NoTime /\ tbl[k].tvdb_id # NoId}
    IN /\ Len(items) = Cardinality(want)
       /\ \A i \in 1..Len(items) :
             /\ DOMAIN items[i] = {"tvdbId"}
             /\ items[i].tvdbId \in Seq({DigitChars[d] : d \in 1..10})
             /\ items[i].tvdbId # <<>>
       /\ \A k \in want :
             Cardinality({i \in 1..Len(items) :
                             DecimalValue(items[i].tvdbId) = tbl[k].tvdb_id}) = 1

\* C7: GET /list/sonarr answers with exactly one {tvdbId: <string>} per pending
\* tv request that has a tvdb_id, and with nothing else.
C7_SonarrList ==
    [][(feed'.serial # feed.serial /\ feed'.kind = "list_sonarr")
          => SonarrExact(requests, feed'.items)]_vars

\* C7 witness: the list was served while both shows were on file with tvdb ids,
\* one of them already fulfilled, and it holds one entry
C7_Witness ==
    /\ feed.kind = "list_sonarr"
    /\ Len(feed.items) = 1
    /\ \A k \in Keys : k[1] = "tv" => requests[k].exists /\ requests[k].tvdb_id # NoId
    /\ \E k \in Keys : k[1] = "tv" /\ requests[k].added_at # NoTime

\* C8: a verify call that arrives while max_attempts failures have been recorded
\* in the current window, and no more than window_seconds after the bucket's
\* first_attempt, is denied with 429.
C8_DeniedWhileBucketFull ==
    \A p \in Procs :
        (aloc[p].checked /\ aloc[p].hist_full) =>
            /\ ~aloc[p].allowed
            /\ pc[p] = "done" /\ resp[p] = verify_result(429)

\* C9: once every record_failed_attempt call has completed, the bucket's
\* failed_attempts is the number of failures recorded in its window.
C9_NoIncrementLost ==
    ((\A p \in Procs : pc[p] # "a_reset") /\ bucket.exists /\ win.clears = 0)
        => bucket.failed_attempts = win.count

\* the steps verify_auth may take, in their order
AuthSteps == <<"check_rate_limit", "timestamp", "pbkdf2">>

IsPrefix(t, u) == Len(t) <= Len(u) /\ t = SubSeq(u, 1, Len(t))

\* C10: a verify call whose rate-limit check denies it ends with 429 having
\* done nothing but that check (no timestamp check, no PBKDF2, no storage
\* write), a 429 is returned on no other path, and the steps of every call
\* come in the order rate-limit check, timestamp check, PBKDF2.
C10_RateLimitCheckedFirst ==
    \A p \in Procs :
        /\ IsPrefix(aloc[p].trace, IF rate_limit_enabled THEN AuthSteps ELSE Tail(AuthSteps))
        /\ (aloc[p].checked /\ ~aloc[p].allowed) =>
               /\ pc[p] = "done" /\ resp[p] = verify_result(429)
               /\ aloc[p].trace = <<"check_rate_limit">>
               /\ aloc[p].writes = 0
        /\ (pc[p] = "done" /\ resp[p] = verify_result(429)) =>
               aloc[p].checked /\ ~aloc[p].allowed

\* C10 witness: a call was denied with 429 after the rate-limit check alone
C10_Witness ==
    \E p \in Procs :
        /\ pc[p] = "done" /\ resp[p] = verify_result(429)
        /\ aloc[p].trace = <<"check_rate_limit">>
        /\ bucket.failed_attempts >= RATE_LIMIT_MAX_ATTEMPTS

\* delivery i was a replay of a delivery that fulfilled a request
ReplayOfMatch(i) ==
    /\ i \in 2..Len(replay.resps)
    /\ replay.resps[1].status = "success"
    /\ replay.resps[1].matched_request

\* the request the first delivery fulfilled, with its fulfilment stamp
FirstMatch == <<replay.resps[1].hist_matched.key, replay.resps[1].hist_matched.item.added_at>>

\* C4: every replay of a webhook that fulfilled a request answers
\* matched_request=false, leaves the request's added_at as the first delivery
\* set it, and does not invoke the notifier again.
C4_ReplayMatchesNothing ==
    \A i \in 1..Len(replay.resps) :
        ReplayOfMatch(i) =>
            /\ ~replay.resps[i].matched_request
            /\ requests[FirstMatch[1]].added_at = FirstMatch[2]
            /\ notifier_calls[FirstMatch] = 1
            /\ \A mk \in NKeys : mk # FirstMatch => notifier_calls[mk] = 0

\* the fields of the webhook's response payload
ResponseFields ==
    {"status", "title", "media_type", "plex_type", "tmdb_id", "added_to_library",
     "matched_request", "notification_sent"}

\* delivery i was a replay of an accepted webhook
ReplayOfAccepted(i) ==
    /\ i \in 2..Len(replay.resps)
    /\ replay.resps[1].status = "success"

\* the response fields in which delivery i differs from the first delivery
Differing(i) == {f \in ResponseFields : replay.resps[i][f] # replay.resps[1][f]}

CheckTimes == {i * TickSeconds : i \in 0..MaxTicks}

\* C11: the step that answers a successful verify (rate limiting enabled)
\* leaves no bucket for the IP, whatever its failure count was, so that a
\* check made on what it leaves allows the attempt at any time.
C11_SuccessClearsBucket ==
    [][\A p \in Procs :
          (rate_limit_enabled /\ resp[p] # verify_result(200)
                              /\ resp'[p] = verify_result(200)) =>
              /\ ~bucket'.exists
              /\ \A t \in CheckTimes :
                     check_rate_limit(bucket', t, RATE_LIMIT_MAX_ATTEMPTS,
                                      RATE_LIMIT_WINDOW_SECONDS)]_vars

\* C11 witness: a successful verify removed a bucket that held max_attempts
\* failures
C11_Witness ==
    \E p \in Procs :
        /\ pc[p] = "done" /\ resp[p] = verify_result(200)
        /\ aloc[p].hist_cleared >= RATE_LIMIT_MAX_ATTEMPTS
        /\ ~bucket.exists

\* the bucket's window has run out at the wall clock's time
BucketExpired ==
    bucket.exists /\ wall_clock - bucket.first_attempt > RATE_LIMIT_WINDOW_SECONDS

\* C12: a verify call that checks the rate limit more than window_seconds after
\* the bucket's first_attempt is allowed, however many failures the bucket
\* holds; a failure recorded at such a time goes on to the reset, and the reset
\* leaves the bucket at failed_attempts = 1 with first_attempt the time of that
\* failure.
C12_ExpiredWindowAllowsAndResets ==
    [][\A p \in Procs :
          /\ (pc[p] = "idle" /\ aloc'[p].checked /\ BucketExpired) =>
                 aloc'[p].allowed /\ pc'[p] = "a_time"
          /\ (pc[p] = "a_record" /\ pc'[p] # "a_record" /\ BucketExpired) =>
                 pc'[p] = "a_reset" /\ aloc'[p].current_time = wall_clock
          /\ (pc[p] = "a_reset" /\ pc'[p] = "done") =>
                 /\ bucket'.exists
                 /\ bucket'.failed_attempts = 1
                 /\ bucket'.first_attempt = aloc[p].current_time]_vars

\* C12 witness: one caller was denied with 429; later, the window over, another
\* call was let through, failed, and reset the bucket to one failure at its time
C12_Witness ==
    \E p, q \in Procs :
        /\ pc[p] = "done" /\ resp[p] = verify_result(429)
        /\ pc[q] = "done" /\ resp[q] = verify_result(401)
        /\ aloc[q].checked /\ aloc[q].allowed /\ aloc[q].writes = 2
        /\ aloc[q].current_time > RATE_LIMIT_WINDOW_SECONDS
        /\ bucket.failed_attempts = 1
        /\ bucket.first_attempt = aloc[q].current_time

\* the time between the creation of the token and its presentation, in half seconds
TokenAge == session.presented - session.created

\* the server's own token, presented unaltered as a bearer token
GenuinePresented == session.step = "verified" /\ ~session.forged /\ session.scheme = "bearer"

\* C13: the token create_session_token made for a name at time now is accepted
\* by verify_session_token at time now+D exactly when 0 <= D <= 30 days, and
\* get_user_from_token gives the name back from every accepted token.
C13_TokenRoundTrip ==
    GenuinePresented =>
        /\ session.accepted <=> (0 <= TokenAge /\ TokenAge <= 2 * SESSION_DURATION_SECONDS)
        /\ session.accepted => session.user = UserName(session.name)

\* the clock reading the handler of p compared the challenge with (the time of
\* the answer when the handler did not get that far)
AuthNow(l, clk) ==
    IF \E i \in 1..Len(l.trace) : l.trace[i] = "timestamp" THEN l.auth_time ELSE clk

\* hash, timestamp and name of the posted challenge are all acceptable at `now`
CredentialsOk(data, now) ==
    /\ data.hash = challenge_hash(preshared_password, data.origin, data.timestamp)
    /\ now - data.timestamp <= AUTH_TIME_WINDOW_SECONDS
    /\ data.timestamp - now <= AUTH_TIME_WINDOW_SECONDS
    /\ \E i \in 1..Len(data.name) : data.name[i] # " "
    /\ Len(strip(data.name)) <= 50

\* the handler of p answers in this step
Answers(p) == resp[p] = NoResp /\ resp'[p] # NoResp /\ resp'[p].kind = "verify"

\* C14 (as stated): POST /api/auth/verify issues a token if and only if the hash
\* is the expected one, |now - timestamp| <= 300 s and the stripped name has 1 to
\* 50 characters.
C14_TokenIffCredentials ==
    [][\A p \in Procs :
          Answers(p) =>
              (resp'[p] = verify_result(200)
                  <=> CredentialsOk(aloc'[p].data, AuthNow(aloc'[p], wall_clock)))]_vars

\* C14 (amended): POST /api/auth/verify issues a token if and only if the rate
\* limiter did not refuse the attempt and the hash is the expected one,
\* |now - timestamp| <= 300 s and the stripped name has 1 to 50 characters.
C14_TokenIffAllowedAndCredentials ==
    [][\A p \in Procs :
          Answers(p) =>
              (resp'[p] = verify_result(200)
                  <=> /\ aloc'[p].allowed
                      /\ CredentialsOk(aloc'[p].data, AuthNow(aloc'[p], wall_clock)))]_vars

\* a token was issued for a challenge at the edge of the allowed skew with a
\* name of exactly 50 characters, the rate limiter having been consulted
C14_Witness ==
    /\ pc[1] = "done" /\ resp[1] = verify_result(200)
    /\ aloc[1].checked
    /\ aloc[1].auth_time - aloc[1].data.timestamp = AUTH_TIME_WINDOW_SECONDS
    /\ Len(aloc[1].data.name) = 52 /\ Len(strip(aloc[1].data.name)) = 50

\* C15: the identity parsed from an episode or a season payload has neither a
\* tmdb_id nor a tvdb_id, whatever the Guid array of the payload holds.
C15_NoScopedIdsInShowFields ==
    \A p \in Procs :
        loc[p].media.plex_type \in {"episode", "season"} =>
            loc[p].media.tmdb_id = NoId /\ loc[p].media.tvdb_id = NoId

\* the payload of the delivery under way passed the event and the server filter
Parsed == /\ calls > 0
          /\ replay.data.event = "library.new"
          /\ replay.data.Server = PlexServerName

\* the identities the handler has parsed from the payload so far: the one it is
\* working with, and those of the deliveries it has answered
ParsedMedia ==
    (IF pc[1] \notin {"idle", "done"} THEN {loc[1].media} ELSE {}) \cup
    (IF pc[1] = "done" /\ resp[1].status = "success" THEN {resp[1].hist_media} ELSE {}) \cup
    {replay.resps[i].hist_media :
        i \in {j \in 1..Len(replay.resps) : replay.resps[j].status = "success"}}

\* C16: parse_plex_payload maps movie to media_type movie with the payload's
\* guid, show to tv with the payload's guid, season to tv with title, year and
\* guid of the parent, episode to tv with title, year and guid of the
\* grandparent, and gives no identity for any other type.
C16_ParseMapsTypes ==
    LET md == replay.data.Metadata
    IN /\ \A m \in ParsedMedia :
            /\ md.type = "movie" => m.media_type = "movie" /\ m.plex_guid = md.guid
            /\ md.type = "show" => m.media_type = "tv" /\ m.plex_guid = md.guid
            /\ md.type = "season" =>
                  /\ m.media_type = "tv" /\ m.plex_guid = md.parentGuid
                  /\ m.year = md.parentYear
                  /\ m.title = (IF md.parentTitle = NoTitle THEN Unknown ELSE md.parentTitle)
            /\ md.type = "episode" =>
                  /\ m.media_type = "tv" /\ m.plex_guid = md.grandparentGuid
                  /\ m.year = md.grandparentYear
                  /\ m.title = (IF md.grandparentTitle = NoTitle THEN Unknown
                                ELSE md.grandparentTitle)
       /\ (Parsed /\ md.type \in {"movie", "show", "season", "episode"}) =>
            /\ pc[1] # "idle" => ParsedMedia # {}
            /\ \A i \in 1..Len(replay.resps) : replay.resps[i].status = "success"
       /\ (Parsed /\ md.type \notin {"movie", "show", "season", "episode"}) =>
            /\ ParsedMedia = {}
            /\ pc[1] \in {"idle", "done"}
            /\ \A i \in 1..Len(replay.resps) : replay.resps[i] = ignored_result("type")

\* an episode was parsed and answered at once: its show's title, year and guid
\* are not the episode's own
C16_Witness ==
    LET md == replay.data.Metadata
    IN /\ Parsed /\ md.type = "episode" /\ pc[1] = "done"
       /\ \E m \in ParsedMedia :
            /\ m.plex_type = "episode"
            /\ m.plex_guid = md.grandparentGuid /\ m.plex_guid \notin {md.guid, md.parentGuid}
            /\ m.title = md.grandparentTitle /\ m.title \notin {md.title, md.parentTitle}
            /\ m.year = md.grandparentYear /\ m.year \notin {md.year, md.parentYear}

\* C17: a handler that found the payload's plex_guid in the GUID cache (an entry
\* without a tmdb id included) never calls TheTVDB's episode lookup.
C17_CacheHitSkipsTvdbLookup ==
    \A p \in Procs : pc[p] = "s4_lookup" => ~loc[p].resolved_from_cache

\* the handler of p missed the GUID cache for a payload that names a plex_guid
CacheMiss(p) == loc[p].media.plex_guid # NoStr /\ ~loc[p].resolved_from_cache

\* C18: after a cache miss and a TVDB lookup that resolved the episode to a
\* series, the handler does not leave strategy 4 without writing the cache entry
\* of the plex_guid: (no tmdb id, series tvdb id) when find_by_tvdb_id found no
\* request for the series, (the request's tmdb id, series tvdb id) when it did.
C18_ReverseLookupIsCached ==
    [][\A p \in Procs :
          /\ (pc[p] \in {"s4_find", "s4_mark", "s4_guid", "s4_cache"} /\ pc'[p] # pc[p]
                /\ CacheMiss(p)) =>
                 pc'[p] \in {"s4_mark", "s4_guid", "s4_cache", "s4_cache2"}
          /\ (pc[p] = "s4_find" /\ pc'[p] = "s4_cache2") =>
                 /\ loc'[p].found_request = NoFound
                 /\ \A k \in Keys : requests[k].exists /\ k[1] = "tv" =>
                        requests[k].tvdb_id # loc[p].show_tvdb_id_resolved
          /\ (pc[p] = "s4_cache2" /\ pc'[p] # "s4_cache2") =>
                 /\ loc[p].show_tvdb_id_resolved = SeriesOfEpisode(loc[p].media.episode_tvdb_id)
                 /\ guid_cache'[loc[p].media.plex_guid] =
                        [cached |-> TRUE,
                         tmdb_id |-> IF loc[p].found_request = NoFound THEN NoId
                                     ELSE loc[p].found_request.key[2],
                         tvdb_id |-> loc[p].show_tvdb_id_resolved]
                 /\ loc[p].found_request # NoFound =>
                        loc[p].found_request.tvdb_id = loc[p].show_tvdb_id_resolved]_vars

\* the handler has just cached (no tmdb id, series tvdb id) for an episode whose
\* series nobody requested
C18_Witness ==
    /\ pc[1] = "s5_find"
    /\ loc[1].media.plex_type = "episode" /\ CacheMiss(1)
    /\ loc[1].show_tvdb_id_resolved # NoId
    /\ loc[1].found_request = NoFound
    /\ guid_cache[loc[1].media.plex_guid] =
           [cached |-> TRUE, tmdb_id |-> NoId, tvdb_id |-> loc[1].show_tvdb_id_resolved]

\* the sync call the handler of p is serving, or has just answered
IsSync(p) == \/ pc[p] = "sync_mark"
             \/ pc[p] = "done" /\ resp[p].kind = "sync" /\ resp[p].code = 200
SyncCall(p) ==
    IF pc[p] = "sync_mark"
    THEN [items |-> loc[p].items, media_type |-> loc[p].media_type,
          clear |-> loc[p].clear, synced |-> loc[p].count]
    ELSE [items |-> resp[p].hist_items, media_type |-> resp[p].media_type,
          clear |-> resp[p].hist_clear, synced |-> resp[p].synced]

\* the tmdb ids of a list of items
ItemIds(items) == {items[i].tmdb_id : i \in 1..Len(items)} \ {NoId}

\* C19: the db.sync_library call of POST /sync/library?clear=true leaves in the
\* partition of the media type exactly the tmdb ids of the posted list, leaves
\* the other partition alone, and the response reports synced = the length of
\* the list.
C19_ClearSyncReplacesPartition ==
    [][\A p \in Procs :
          (pc[p] = "idle" /\ IsSync(p)' /\ SyncCall(p)'.clear) =>
              /\ \A id \in TmdbIds :
                    library'[<<SyncCall(p)'.media_type, id>>].present
                        <=> id \in ItemIds(SyncCall(p)'.items)
              /\ \A k \in Keys : k[1] # SyncCall(p)'.media_type => library'[k] = library[k]
              /\ SyncCall(p)'.synced = Len(SyncCall(p)'.items)]_vars

\* the handler of p answers a POST /api/request in this step
Creates(p) == pc[p] = "idle" /\ pc'[p] = "done" /\ resp'[p].kind = "create"

\* C20: POST /api/request for a key that has a record leaves the record as it is
\* and answers success=false; for a key without a record it stores one and
\* answers success=true, so that of several creations of one absent key only
\* the first succeeds.
C20_CreateOnlyOnce ==
    [][\A p \in Procs :
          Creates(p) =>
              /\ requests[resp'[p].key].exists =>
                    /\ requests'[resp'[p].key] = requests[resp'[p].key]
                    /\ ~resp'[p].success
              /\ ~requests[resp'[p].key].exists =>
                    /\ requests'[resp'[p].key].exists
                    /\ resp'[p].success]_vars

\* the handler of p answers a DELETE /api/request in this step
Deletes(p) == pc[p] = "idle" /\ pc'[p] = "done" /\ resp'[p].kind = "delete"

\* C21: DELETE /api/request/{media_type}/{tmdb_id} removes the request and
\* answers 200 when the key has a request, and answers 404 when it has none.
C21_DeleteOr404 ==
    [][\A p \in Procs :
          Deletes(p) =>
              /\ ~requests'[resp'[p].key].exists
              /\ requests[resp'[p].key].exists => resp'[p].code = 200
              /\ ~requests[resp'[p].key].exists => resp'[p].code = 404]_vars

\* the webhook of p has returned after its notifier called send_push
Pushed(p) ==
    /\ pc[p] = "done" /\ resp[p].kind = "webhook" /\ resp[p].status = "success"
    /\ resp[p].hist_push # NoStr

\* C22: a notifier that called send_push deletes the requester's subscription
\* exactly when the push endpoint answered 404 or 410 and reports the
\* notification as sent exactly when the endpoint answered 2xx; the send_push
\* step itself changes no subscription, and the deleting step removes the
\* requester's subscription and no other.
C22_DeleteOnGoneOnly ==
    [][\A p \in Procs :
          /\ (pc[p] \in {"n_send", "n_del"} /\ pc'[p] = "done") =>
                /\ resp'[p].hist_deleted <=> resp'[p].hist_push \in {"404", "410"}
                /\ resp'[p].notification_sent <=> resp'[p].hist_push = "201"
                /\ resp'[p].hist_deleted <=> pc[p] = "n_del"
          /\ (pc[p] = "n_send" /\ pc'[p] # "n_send") => push_subs' = push_subs
          /\ (pc[p] = "n_del" /\ pc'[p] = "done") =>
                push_subs' = [push_subs EXCEPT
                                ![resp'[p].hist_matched.item.requested_by] = FALSE]]_vars

\* an endpoint answered 410 and the call removed the stored subscription
C22_Witness ==
    \E p \in Procs :
        /\ Pushed(p)
        /\ resp[p].hist_push = "410"
        /\ resp[p].hist_deleted
        /\ ~resp[p].notification_sent
        /\ ~push_subs[resp[p].hist_matched.item.requested_by]

\* the webhook of p returns in this step, and it had fulfilled a request
ReturnsMatched(p) ==
    /\ pc[p] \notin {"idle", "done"} /\ pc'[p] = "done" /\ resp'[p].kind = "webhook"
    /\ loc[p].matched_request.item.exists

\* C23: whatever comes of the notifier (no requester, no subscription, an
\* expired subscription, an error of the push endpoint or of the network), a
\* webhook that fulfilled a request answers 200 with status success, with
\* notification_sent false unless the push was delivered, and the request it
\* fulfilled still has the added_at the webhook wrote; no step of the notifier
\* changes a request.
C23_NotifierNeverFailsWebhook ==
    [][\A p \in Procs :
          /\ ReturnsMatched(p) =>
                /\ resp'[p].code = 200
                /\ resp'[p].status = "success"
                /\ resp'[p].matched_request
                /\ resp'[p].notification_sent <=> resp'[p].hist_push = "201"
                /\ requests'[loc[p].matched_request.key].added_at
                       = loc[p].matched_request.item.added_at
          /\ (pc[p] \in {"n_get", "n_send", "n_del"} /\ pc'[p] # pc[p]) =>
                requests' = requests]_vars

\* the push endpoint failed, the webhook answered success without a
\* notification, and the request is fulfilled
C23_Witness ==
    /\ Pushed(1)
    /\ resp[1].hist_push \in {"500", "URLError", "KeyError"}
    /\ resp[1].matched_request
    /\ ~resp[1].notification_sent
    /\ requests[resp[1].hist_matched.key].added_at = resp[1].hist_matched.item.added_at
    /\ resp[1].hist_matched.item.added_at # NoTime

\* the token presented with the last subscription request was valid when it was
\* presented
PresentedValid ==
    verify_session_token([scheme |-> session.scheme, token |-> session.token],
                         session.presented)

\* C24: a request to POST or DELETE /api/push/subscribe changes the stored
\* subscription of a user U only if it carries a session token that verifies
\* (right signature, not expired) and whose name is U.
C24_SubscriptionNeedsValidToken ==
    [][\A n \in DOMAIN push_subs' :
          (n \notin DOMAIN push_subs \/ push_subs'[n] # push_subs[n]) =>
              /\ PresentedValid'
              /\ session'.user = UserName(n)]_vars

\* the payload is one the handler is to ignore: another event, another server,
\* or a Metadata.type that is neither movie, show, season nor episode
Ignorable(data) ==
    \/ data.event # "library.new"
    \/ data.Server # PlexServerName
    \/ data.Metadata.type \notin {"movie", "show", "season", "episode"}

\* C25: while Plex delivers a payload with another event, another server title
\* or an unsupported Metadata.type, every delivery is answered 200 with status
\* ignored in one step, requests, library members, GUID cache and push
\* subscriptions stay as they are, and the handler reaches neither the TVDB
\* lookup nor the notifier.
C25_IgnoredWebhookChangesNothing ==
    [][Ignorable(replay.data) =>
          /\ UNCHANGED <<requests, library, guid_cache, push_subs, notifier_calls, push_sent>>
          /\ pc'[1] \in {"idle", "done"}
          /\ pc'[1] = "done" => /\ resp'[1].code = 200
                                 /\ resp'[1].status = "ignored"]_vars

\* a delivery from another server, with a supported type and the right event,
\* has been answered
C25_Witness ==
    /\ replay.data.Server # PlexServerName
    /\ replay.data.event = "library.new"
    /\ replay.data.Metadata.type = "movie"
    /\ Len(replay.resps) = MaxCalls
    /\ \A i \in 1..Len(replay.resps) : replay.resps[i].status = "ignored"

\* the reverse lookup of p's webhook yields nothing in this step
LookupFails(p) == pc[p] = "s4_lookup" /\ pc'[p] \notin {"s4_lookup", "s4_find"}

C27_CacheOnlySavesLookups ==
    (replay.phase = "populated" /\ pc[1] = "idle" /\ Len(replay.resps) = MaxCalls)
        => Fulfilled(requests) = replay.first

\* the attributes of an item whose value is not None
NonNull(item) == [k \in {a \in DOMAIN item : item[a].t # "NoneType"} |-> item[k]]

\* C28 as stated: an item put and read back has the same attributes with the
\* same values, None included.
C28_RoundTripAll ==
    wire.step = "read" => wire.back = wire.item

\* C28: an item put and read back has the attributes whose value was not
\* None, each with the value it was given: booleans, strings, integers as
\* integers, floats as floats, lists and mappings with every element, a None
\* inside a list or a mapping included.  An attribute whose value is None is
\* not stored, and is absent from the item read.
C28_RoundTripNonNull ==
    wire.step = "read" => wire.back = NonNull(wire.item)

\* a list holding None and a float, and an integer, were put and read back
C28_Witness ==
    /\ wire.step = "read"
    /\ "a" \in DOMAIN wire.item
    /\ wire.item["a"] = PyList(<<PyNone, PyFloat(FALSE, 1, 0, 0)>>)
    /\ "b" \in DOMAIN wire.item
    /\ wire.item["b"] = PyInt(0 - 3)
    /\ wire.back = wire.item

\* the strategy a position of the webhook handler belongs to: 0 before the
\* first, 1..5 for S1..S5, 6 for the notifier and the response
Strategy(label) ==
    IF label \in {"s1_mark", "s1_guid", "s1_cache"} THEN 1
    ELSE IF label \in {"s2_find", "s2_mark", "s2_guid", "s2_cache"} THEN 2
    ELSE IF label \in {"s3_find", "s3_mark", "s3_cache"} THEN 3
    ELSE IF label \in {"s4_lookup", "s4_find", "s4_mark", "s4_guid", "s4_cache", "s4_cache2"}
         THEN 4
    ELSE IF label \in {"s5_find", "s5_mark", "s5_lib", "s5_guid", "s5_cache"} THEN 5
    ELSE IF label \in {"n_get", "n_send", "n_del", "done"} THEN 6
    ELSE 0

\* process p is inside a webhook and takes a step of it
InWebhook(p) ==
    /\ pc[p] \in {"w_lib", "n_get", "n_send", "n_del"} \/ Strategy(pc[p]) \in 1..5
    /\ pc'[p] # pc[p]

\* the requests this step moves from pending to fulfilled
NewlyFulfilled ==
    {k \in Keys : requests[k].exists /\ requests[k].added_at = NoTime
                     /\ requests'[k].added_at # NoTime}

\* the request p holds as matched after this step; the response keeps it when
\* the step was the handler's last
MatchedAfter(p) ==
    IF pc'[p] = "done" THEN resp'[p].hist_matched ELSE loc'[p].matched_request

\* the (request, added_at) pairs for which this step calls the notifier
NewlyNotified == {mk \in NKeys : notifier_calls'[mk] # notifier_calls[mk]}

\* C29: within one webhook the handler never goes back to an earlier strategy
\* (S1 tmdb id, S2 tvdb id, S3 plex guid, S4 reverse lookup, S5 title, then the
\* notifier); it enters a later strategy only while no request is matched; a
\* step fulfils a request only while none is matched, fulfils one request, and
\* that request stays the matched one to the end; and the notifier is called
\* only on leaving the strategies, once, for the matched request.
C29_OneFulfilmentPerWebhook ==
    [][\A p \in Procs :
          InWebhook(p) =>
              /\ Strategy(pc'[p]) >= Strategy(pc[p])
              /\ (Strategy(pc'[p]) \in 1..5 /\ Strategy(pc'[p]) > Strategy(pc[p]))
                     => ~Matched(loc'[p])
              /\ NewlyFulfilled # {}
                     => /\ ~Matched(loc[p])
                        /\ NewlyFulfilled = {MatchedAfter(p).key}
              /\ (Matched(loc[p]) /\ pc'[p] # "done")
                     => loc'[p].matched_request = loc[p].matched_request
              /\ NewlyNotified # {}
                     => /\ Strategy(pc[p]) <= 5 /\ Strategy(pc'[p]) = 6
                        /\ \E mk \in NKeys :
                              /\ NewlyNotified = {mk}
                              /\ notifier_calls'[mk] = notifier_calls[mk] + 1
                              /\ mk[1] = MatchedAfter(p).key
                              /\ mk[2] = MatchedAfter(p).item.added_at
              /\ \A mk \in NKeys : push_sent'[mk] <= push_sent[mk] + 1]_vars

\* a webhook answered after its tmdb id fulfilled one request, while another
\* pending request carries the plex guid of the same payload
C29_Witness ==
    /\ pc[1] = "done"
    /\ resp[1].kind = "webhook"
    /\ resp[1].status = "success"
    /\ resp[1].matched_request
    /\ resp[1].hist_media.plex_guid # NoStr
    /\ \E k \in Keys :
          /\ k # resp[1].hist_matched.key
          /\ requests[k].exists
          /\ requests[k].added_at = NoTime
          /\ requests[k].plex_guid = resp[1].hist_media.plex_guid

\* C30: a webhook for an episode or a season whose show ids did not come from
\* the GUID cache is never at the library write that precedes the strategies,
\* nor in strategy 1 or strategy 2: it has no show-level id to use there.
C30_NoItemScopedShowIds ==
    \A p \in Procs :
        (loc[p].media.plex_type \in {"episode", "season"} /\ ~loc[p].resolved_from_cache)
            => pc[p] \notin {"w_lib", "s1_mark", "s1_guid", "s1_cache",
                             "s2_find", "s2_mark", "s2_guid", "s2_cache"}

\* the pending requests of process p's media type whose normalized title is the
\* normalized title of the payload p is handling
TitleCandidates(p) ==
    {k \in Keys : /\ k[1] = loc[p].media.media_type
                  /\ requests[k].exists
                  /\ requests[k].added_at = NoTime
                  /\ normalize_title(requests[k].title) = normalize_title(loc[p].media.title)}

C32_DeletedStaysAbsent ==
    [][\A k \in Keys :
          (~requests[k].exists /\ requests'[k].exists)
              => \E p \in Procs : Creates(p) /\ resp'[p].key = k]_vars

\* C33: with rate limiting enabled, the failed verifications of the client's IP
\* recorded within one window never number more than max_attempts.
C33_FailuresPerWindowBounded ==
    rate_limit_enabled => win.count <= RATE_LIMIT_MAX_ATTEMPTS

\* marked_as_added as process p has it after this step: the running count, or
\* the count in the response when the step was the last of the call
MarkedAfter(p) ==
    IF pc'[p] = "done" THEN resp'[p].marked_as_added ELSE loc'[p].marked

\* C34: a POST /sync/library call starts with marked_as_added = 0 and fulfils
\* nothing before its loop; each iteration of the loop adds to the count the
\* number of requests it moved from pending to fulfilled, which is one request
\* of the call's media_type with the item's tmdb_id, or none (no tmdb_id, no
\* request, a request already fulfilled, a tmdb_id seen earlier in the list).
C34_MarkedCountsNewlyFulfilled ==
    [][\A p \in Procs :
          /\ (pc[p] = "idle" /\ IsSync(p)')
                 => /\ NewlyFulfilled = {}
                    /\ MarkedAfter(p) = 0
          /\ (pc[p] = "sync_mark" /\ (pc'[p] = "done" \/ loc'[p].i # loc[p].i))
                 => /\ MarkedAfter(p) = loc[p].marked + Cardinality(NewlyFulfilled)
                    /\ NewlyFulfilled \subseteq
                           {<<loc[p].media_type, loc[p].items[loc[p].i].tmdb_id>>}]_vars

\* a sync of two items with the same tmdb id answered marked_as_added = 1: the
\* first fulfilled the request, the second found it fulfilled
C34_Witness ==
    /\ pc[1] = "done"
    /\ resp[1].kind = "sync"
    /\ resp[1].code = 200
    /\ Len(resp[1].hist_items) = 2
    /\ resp[1].hist_items[1].tmdb_id = resp[1].hist_items[2].tmdb_id
    /\ resp[1].hist_items[1].tmdb_id # NoId
    /\ resp[1].marked_as_added = 1
    /\ requests[<<resp[1].media_type, resp[1].hist_items[1].tmdb_id>>].added_at # NoTime

\* the requests of process p's partition whose tvdb_id is the show-level tvdb
\* id p is looking for in strategy 2
TvdbCandidates(p) ==
    {k \in Keys : /\ k[1] = loc[p].media.media_type
                  /\ requests[k].exists
                  /\ requests[k].tvdb_id = loc[p].show_tvdb_id}

\* C35: the find_by_tvdb_id of strategy 2 gives a request of the partition
\* whose tvdb_id is the show-level tvdb id whenever one exists, and nothing
\* otherwise, so that S2 goes on to mark the request it found.
C35_FindByTvdbIdFinds ==
    [][\A p \in Procs :
          (pc[p] = "s2_find" /\ pc'[p] # "s2_find")
              => /\ TvdbCandidates(p) # {}
                     => /\ pc'[p] = "s2_mark"
                        /\ loc'[p].found_request.key \in TvdbCandidates(p)
                 /\ TvdbCandidates(p) = {} => pc'[p] # "s2_mark"]_vars

\* C36: the body of GET /api/requests without a media_type, and the pending list
\* of GET /api/library-status, hold only Request records (partition movie or tv).
C36_ListsHoldOnlyRequests ==
    feed.kind \in {"list_requests", "get_library_status"} =>
        \A r \in feed.requests : r.media_type \in {Partition("", mt) : mt \in MediaTypes}

\* C37: get_series_id_from_episode logs in exactly when no token is cached or the
\* cached token's expiry has passed; without an API key it sends no HTTP request
\* and returns nothing; a login that yields no token leaves the cached token and
\* its expiry as they were.
C37_LoginOnlyWhenNeeded ==
    LET l == tvdb_client.last
        logged_in == \E i \in 1..Len(l.http) : l.http[i] = "POST /login"
    IN l.called =>
          /\ tvdb_client.api_key = NoStr => (l.http = <<>> /\ l.result = NoId)
          /\ tvdb_client.api_key # NoStr =>
                (logged_in <=> (l.hist_token = NoStr \/ l.hist_now >= l.hist_expires))
          /\ (logged_in /\ l.token = NoStr) =>
                (tvdb_client.token = l.hist_token /\ tvdb_client.token_expires = l.hist_expires)

\* C38: a verify attempt rejected for its timestamp (401) or, after a correct
\* hash, for its name (400) has written nothing and leaves the bucket as it is;
\* a verify attempt changes the bucket only by recording the failure of a wrong
\* hash, or by deleting it on its way to a 200.
C38_OnlyMismatchRecordsOnlySuccessClears ==
    [][\A p \in Procs :
          LET d == aloc[p].data
              hash_ok == verify_challenge_hash(d.origin, d.timestamp, d.hash)
          IN /\ (pc[p] = "a_time" /\ pc'[p] = "done") =>
                    (resp'[p] = verify_result(401) /\ bucket' = bucket /\ aloc'[p].writes = 0)
             /\ (pc[p] = "a_name" /\ pc'[p] = "done" /\ resp'[p] = verify_result(400)) =>
                    (hash_ok /\ bucket' = bucket /\ aloc'[p].writes = 0)
             /\ (pc[p] # pc'[p] /\ bucket' # bucket) =>
                    \/ pc[p] \in {"a_record", "a_reset"} /\ ~hash_ok
                       /\ bucket'.exists /\ (pc'[p] = "done" => resp'[p] = verify_result(401))
                    \/ pc[p] = "a_clear" /\ hash_ok /\ name_valid(strip(d.name))
                       /\ bucket' = NoBucket /\ resp'[p] = verify_result(200)]_vars

\* one worker has rejected a timestamp and the other a name, while the bucket
\* holds a recorded failure
C38_Witness ==
    /\ bucket.exists
    /\ bucket.failed_attempts >= 1
    /\ pc[1] = "done" /\ aloc[1].writes = 0 /\ resp[1] = verify_result(400)
    /\ pc[2] = "done" /\ aloc[2].writes = 0 /\ resp[2] = verify_result(401)
    /\ aloc[2].trace[Len(aloc[2].trace)] = "timestamp"

\* C39: a LibraryMember row goes away only in the step in which POST /sync/library
\* with clear=true for the row's own media_type calls db.sync_library.
C39_RowsRemovedOnlyByClearingSync ==
    [][\A k \in Keys :
          (library[k].present /\ ~library'[k].present) =>
              \E p \in Procs : /\ pc[p] = "idle"
                               /\ IsSync(p)'
                               /\ SyncCall(p)'.clear
                               /\ SyncCall(p)'.media_type = k[1]]_vars

\* a webhook has put a movie into the library and a clearing sync of the movies,
\* which does not list it, has removed the row
C39_Witness ==
    /\ pc[1] = "done"
    /\ resp[1].kind = "webhook"
    /\ resp[1].status = "success"
    /\ resp[1].added_to_library
    /\ resp[1].media_type = "movie"
    /\ resp[1].tmdb_id \in TmdbIds
    /\ IsSync(2)
    /\ SyncCall(2).clear
    /\ SyncCall(2).media_type = "movie"
    /\ SyncCall(2).synced = Len(SyncCall(2).items)
    /\ ~library[<<"movie", resp[1].tmdb_id>>].present

\* the tables
storage == <<requests, library, guid_cache, push_subs>>

\* the token of the call whose handler p runs in this step
StepToken(p) ==
    IF pc[p] # "idle" THEN loc[p].token
    ELSE IF pc'[p] = "done" THEN resp'[p].hist_token
    ELSE loc'[p].token

\* C40: a step of POST /webhook/plex or POST /sync/library changes a table only
\* when a webhook token is configured and the call's token equals it; a call with
\* any other token, and every call when no token is configured, is answered 401
\* and changes nothing.
C40_StorageChangesNeedToken ==
    [][/\ storage' # storage =>
             /\ plex_webhook_token # NoStr
             /\ \E p \in Procs : /\ pc[p] # pc'[p] \/ loc[p] # loc'[p]
                                 /\ pc[p] = "idle" /\ pc'[p] = "done" => resp'[p].kind = "sync"
                                 /\ StepToken(p) = plex_webhook_token
       /\ \A p \in Procs :
             (pc[p] = "idle" /\ pc'[p] # "idle") =>
                 /\ plex_webhook_token = NoStr =>
                        (pc'[p] = "done" /\ resp'[p].kind = "unauthorized")
                 /\ resp'[p].kind = "unauthorized" =>
                        /\ resp'[p].code = 401
                        /\ storage' = storage
                        /\ resp'[p].hist_token # plex_webhook_token
                           \/ plex_webhook_token = NoStr]_vars

\* a call with the configured token has changed the library and the next call,
\* with another token, has been answered 401
C40_Witness ==
    /\ plex_webhook_token = "secret"
    /\ \E k \in Keys : library[k].present
    /\ pc[1] = "done"
    /\ resp[1].kind = "unauthorized"
    /\ resp[1].hist_token = "guess"

====
